---- MODULE Spec2Model ----
(***************************************************************************)
(* State-machine model of the Six backend (windrunne/6ix-app).             *)
(*                                                                         *)
(* The data store tables are variables named after the tables; every       *)
(* service method is one action that performs the whole method.  Time is   *)
(* an integer number of minutes (now); datetime.utcnow()/now() read it.    *)
(* Each subsystem has its own specification (SpecRate, SpecGhost,          *)
(* SpecIntro, SpecChat, SpecPost, ...) over the same variables.            *)
(***************************************************************************)
EXTENDS Integers, Sequences, FiniteSets, TLC

VARIABLES
    now,                \* the wall clock, in minutes
    clockSteps,         \* how many times the clock has advanced
    requests,           \* RateLimiter._requests: key -> list of <<ts, count>>
    last_cleanup,       \* RateLimiter._last_cleanup
    rlResult,           \* what the last check_rate_limit call returned
    daily_challenges,   \* table daily_challenges: user -> latest row (0 or 1 rows)
    ghost_asks,         \* table ghost_asks, row id = position
    notifications,      \* table notifications
    ghostResult,        \* what the last ghost-ask service call returned
    intro_requests,     \* table intro_requests, row id = position
    chats,              \* table chats
    messages,           \* table messages
    introResult,        \* what the last intro service call returned
    updated_at_maintained, \* whether the store stamps intro_requests.updated_at on update
    chat_sessions,      \* table chat_sessions: thread_id -> row
    threads_created,    \* provider threads created so far (ai_service.create_thread)
    chatResult,         \* what the last chat service call returned
    post_insights,      \* table post_insights: post_id -> row
    ai_calls,           \* number of post-analysis calls made to the AI provider
    insight_writes,     \* number of upserts into post_insights
    postResult,         \* what the last analyze_post call returned
    max_parallel_ai_requests, \* settings.max_parallel_ai_requests of this deployment
    ai_outcomes,        \* connection -> what the AI provider does for its match call
    match_tasks,        \* connection -> position of its match_with_limit task
    all_results,        \* connection -> what its match task returned (0 or 1 dicts)
    searchResult,       \* what search_network_semantic returned
    calls,              \* service calls in flight: slot -> the call's locals and position
    routeResult         \* what the last HTTP route returned, and the services it called

rateVars  == <<requests, last_cleanup, rlResult>>
ghostVars == <<daily_challenges, ghost_asks, ghostResult>>
introVars == <<intro_requests, chats, messages, introResult, updated_at_maintained>>
chatVars  == <<chat_sessions, threads_created, chatResult>>
postVars  == <<post_insights, ai_calls, insight_writes, postResult>>
clockVars == <<now, clockSteps>>
netVars   == <<max_parallel_ai_requests, ai_outcomes, match_tasks, all_results, searchResult>>
callVars  == <<netVars, calls, routeResult>>
vars == <<clockVars, rateVars, ghostVars, notifications, introVars, chatVars, postVars, callVars>>

\* ---------------------------------------------------------------- bounds
MaxClockSteps == 3

MinutesPerDay == 24 * 60
MinutesPerHour == MinutesPerDay \div 24
None == 0 - 1

Users == {"u1", "u2"}

\* Service calls that may be in flight at once (requests handled by different
\* service instances against the one data store), and a free slot.
MaxCalls == 2
CallIds == 1..MaxCalls
IdleCall == [op |-> "idle"]
Idle(c) == calls[c].op = "idle"
At(c, op, pc) == calls[c].op = op /\ calls[c].pc = pc

Max(a, b) == IF a >= b THEN a ELSE b

\* The clock advances by d minutes.
Tick(d) ==
    /\ clockSteps < MaxClockSteps
    /\ now' = now + d
    /\ clockSteps' = clockSteps + 1

ClockInit ==
    /\ now = 0
    /\ clockSteps = 0

\* ------------------------------------------------- utils/rate_limiter.py
CHAT_MESSAGE_PER_USER_MINUTE == 3
GHOST_ASK_CREATE_PER_USER_DAY == 3
CleanupIntervalHours == 1
CleanupCutoffDays == 1

\* The keys the routes build with check_user_rate_limit ("user:{id}:{operation}")
\* and the limit and window each route always passes for its key.
ChatMinuteKey == "user:u1:chat_message_minute"
GhostCreateKey == "user:u1:ghost_ask_create"
RateKeys == {ChatMinuteKey, GhostCreateKey}
KeyLimit(key) ==
    IF key = ChatMinuteKey THEN CHAT_MESSAGE_PER_USER_MINUTE
    ELSE GHOST_ASK_CREATE_PER_USER_DAY
KeyWindow(key) ==
    IF key = ChatMinuteKey THEN 1 ELSE MinutesPerDay

RECURSIVE SumCounts(_)
SumCounts(entries) ==
    IF entries = <<>> THEN 0
    ELSE Head(entries)[2] + SumCounts(Tail(entries))

\* The entries of a key; a key the dictionary does not hold has none.
EntriesOf(reqs, key) == IF key \in DOMAIN reqs THEN reqs[key] ELSE <<>>

\* [(ts, count) for ts, count in entries if ts > cutoff_time]
NewerThan(entries, cutoff_time) ==
    SelectSeq(entries, LAMBDA e : e[1] > cutoff_time)

\* RateLimiter._cleanup_old_requests at time t: at most once per hour, every
\* key loses its entries older than a day and a key left empty is deleted.
_cleanup_old_requests(reqs, lastc, t) ==
    IF t - lastc < CleanupIntervalHours * MinutesPerHour
    THEN [requests |-> reqs, last_cleanup |-> lastc]
    ELSE LET cutoff_time == t - CleanupCutoffDays * MinutesPerDay
             kept == {k \in DOMAIN reqs : NewerThan(reqs[k], cutoff_time) # <<>>}
         IN  [requests |-> [k \in kept |-> NewerThan(reqs[k], cutoff_time)],
              last_cleanup |-> t]

\* is_allowed = total_count < limit
IsAllowed_AtLimit(total_count, limit) == total_count <= limit
IsAllowed(total_count, limit) == total_count < limit

\* if is_allowed: self._requests[key].append((now, 1))
Recorded_Always(entries, is_allowed, t) == Append(entries, <<t, 1>>)
Recorded(entries, is_allowed, t) ==
    IF is_allowed THEN Append(entries, <<t, 1>>) ELSE entries

\* RateLimiter.check_rate_limit(key, limit, window_minutes) at time t: the
\* dictionary and the housekeeping time it leaves, and the tuple it returns.
check_rate_limit(reqs, lastc, key, limit, window_minutes, t) ==
    LET cleaned == _cleanup_old_requests(reqs, lastc, t)
        \* self._requests[key] on a defaultdict creates the key
        entries == EntriesOf(cleaned.requests, key)
        cutoff_time == t - window_minutes
        recent_requests == NewerThan(entries, cutoff_time)
        total_count == SumCounts(recent_requests)
        is_allowed == IsAllowed(total_count, limit)
        time_until_reset ==
            IF recent_requests # <<>>
            THEN Max(0, (recent_requests[1][1] + window_minutes - t) * 60)
            ELSE 0
    IN  [requests |-> [k \in DOMAIN cleaned.requests \cup {key} |->
                          IF k = key THEN Recorded(entries, is_allowed, t)
                          ELSE cleaned.requests[k]],
         last_cleanup |-> cleaned.last_cleanup,
         is_allowed |-> is_allowed,
         current_count |-> total_count,
         time_until_reset |-> time_until_reset]

NoRlResult ==
    [key |-> "", limit |-> 0, window_minutes |-> 0, at |-> None,
     is_allowed |-> FALSE, current_count |-> 0, time_until_reset |-> 0]

RateInit ==
    /\ requests = <<>>
    /\ last_cleanup = 0
    /\ rlResult = NoRlResult

\* A route checks the limit of one of its keys.
CheckRateLimit(key) ==
    LET r == check_rate_limit(requests, last_cleanup, key,
                              KeyLimit(key), KeyWindow(key), now)
    IN  /\ requests' = r.requests
        /\ last_cleanup' = r.last_cleanup
        /\ rlResult' = [key |-> key, limit |-> KeyLimit(key),
                        window_minutes |-> KeyWindow(key), at |-> now,
                        is_allowed |-> r.is_allowed,
                        current_count |-> r.current_count,
                        time_until_reset |-> r.time_until_reset]

\* ------------------------------------------- services/ghost_ask_service.py
MaxGhostAsks == 1
MaxGhostTicks == 1

challenge_unlock_window_minutes == 6
max_ghost_asks_per_day == 5
GraceMinutes == 5
ForceSendAfter == 10
DefaultUnlockWaitHours == 6

GhostSenders == {"u1"}
GhostMessages == {"hey"}
\* The times the upstream system may give a daily challenge.
ChallengeTimes == {0 - 5, 0 - 2, 1}

\* The row .order("challenge_date", desc=True).limit(1) returns for a user.
LatestChallenge(user_id) == daily_challenges[user_id]

\* GhostAskService._check_user_posted_in_challenge_window at time t.
PostedInWindow_IgnoresHasPosted(challenge, t) ==
    LET challenge_end_time == challenge.challenge_time + challenge_unlock_window_minutes
    IN  challenge.challenge_time <= t /\ t <= challenge_end_time
PostedInWindow(challenge, t) ==
    LET challenge_end_time == challenge.challenge_time + challenge_unlock_window_minutes
    IN  \/ /\ challenge.challenge_time <= t
           /\ t <= challenge_end_time
           /\ challenge.has_posted
        \/ /\ challenge.has_posted
           /\ t < challenge_end_time + GraceMinutes

_check_user_posted_in_challenge_window(user_id, t) ==
    IF LatestChallenge(user_id) = <<>> THEN FALSE
    ELSE PostedInWindow(LatestChallenge(user_id)[1], t)

\* GhostAskService._check_rate_limits: TRUE when the sender may create another.
GhostCreatedSince(asks, user_id, cutoff_time) ==
    Cardinality({i \in 1..Len(asks) :
        asks[i].sender_id = user_id /\ asks[i].created_at >= cutoff_time})
_check_rate_limits_ghost_ThreePerDay(asks, user_id, t) ==
    GhostCreatedSince(asks, user_id, t - MinutesPerDay) < GHOST_ASK_CREATE_PER_USER_DAY
_check_rate_limits_ghost(asks, user_id, t) ==
    GhostCreatedSince(asks, user_id, t - MinutesPerDay) < max_ghost_asks_per_day

\* GhostAskService._get_time_until_unlock, in seconds.
_get_time_until_unlock(user_id, t) ==
    LET rows == LatestChallenge(user_id)
        challenge_end_time == rows[1].challenge_time + challenge_unlock_window_minutes
    IN  IF rows # <<>> /\ rows[1].challenge_time > t
        THEN (rows[1].challenge_time - t) * 60
        ELSE IF rows # <<>> /\ t < challenge_end_time /\ ~rows[1].has_posted
        THEN (challenge_end_time - t) * 60
        ELSE DefaultUnlockWaitHours * 3600

\* ai_service.generate_persuasion_message: the text depends on what it is given.
generate_persuasion_message(user_id, ghost_ask_content, attempt_count) ==
    <<"persuasion", user_id, ghost_ask_content, attempt_count>>

\* The notification row _send_ghost_ask inserts.  sender_id is an argument of
\* _send_ghost_ask; the row is built without it.
GhostNotification_NamesSender(ghost_ask_id, sender_id, recipient_id, message, t) ==
    [user_id |-> recipient_id, sender_id |-> sender_id, type |-> "ghost_ask",
     title |-> "Ghost Ask",
     message |-> <<"from a friend in your network: ", message>>,
     data |-> [ghost_ask_id |-> ghost_ask_id, is_anonymous |-> TRUE],
     created_at |-> t, read |-> FALSE]
GhostNotification(ghost_ask_id, sender_id, recipient_id, message, t) ==
    [user_id |-> recipient_id, sender_id |-> "anonymous", type |-> "ghost_ask",
     title |-> "Ghost Ask",
     message |-> <<"from a friend in your network: ", message>>,
     data |-> [ghost_ask_id |-> ghost_ask_id, is_anonymous |-> TRUE],
     created_at |-> t, read |-> FALSE]

\* GhostAskService._send_ghost_ask: the tables it leaves.
SentNotifications(notifs, ghost_ask_id, sender_id, recipient_id, message, t) ==
    Append(notifs, GhostNotification(ghost_ask_id, sender_id, recipient_id, message, t))

_send_ghost_ask_StatusOnly(asks, notifs, ghost_ask_id, sender_id, recipient_id, message, t) ==
    [ghost_asks |-> [asks EXCEPT ![ghost_ask_id].status = "sent"],
     notifications |-> SentNotifications(notifs, ghost_ask_id, sender_id, recipient_id,
                                         message, t)]
_send_ghost_ask(asks, notifs, ghost_ask_id, sender_id, recipient_id, message, t) ==
    [ghost_asks |-> [asks EXCEPT ![ghost_ask_id].status = "sent",
                                 ![ghost_ask_id].sent_at = t],
     notifications |-> SentNotifications(notifs, ghost_ask_id, sender_id, recipient_id,
                                         message, t)]

\* if attempts > 10
GivesIn_AtTen(attempts) == attempts >= ForceSendAfter
GivesIn(attempts) == attempts > ForceSendAfter

\* attempt_send_ghost_ask: the test that delivers a locked ask, attempts > 10;
\* the force_send argument is never read.
ForceSends_OnRequest(attempts, force_send) == GivesIn(attempts) \/ force_send
ForceSends(attempts, force_send) == GivesIn(attempts)

NoGhostResult ==
    [op |-> "", at |-> None, sender_id |-> "", request_id |-> None,
     success |-> FALSE, error |-> "", ghost_ask_id |-> None, status |-> "",
     message |-> "", unlock_required |-> FALSE, time_remaining_seconds |-> None,
     persuasion_message |-> <<>>, attempts |-> None, can_force_send |-> FALSE]

GhostInit ==
    /\ daily_challenges = [u \in Users |-> <<>>]
    /\ ghost_asks = <<>>
    /\ ghostResult = NoGhostResult

\* GhostAskService.create_ghost_ask(sender_id, recipient_id, message)
create_ghost_ask(sender_id, recipient_id, message) ==
    LET has_posted_in_window == _check_user_posted_in_challenge_window(sender_id, now)
        can_send == _check_rate_limits_ghost(ghost_asks, sender_id, now)
        id == Len(ghost_asks) + 1
        inserted == Append(ghost_asks,
            [sender_id |-> sender_id, recipient_id |-> recipient_id,
             message |-> message, status |-> "pending", created_at |-> now,
             sent_at |-> None, unlocked |-> has_posted_in_window,
             persuasion_attempts |-> 0])
        sent == _send_ghost_ask(inserted, notifications, id, sender_id, recipient_id,
                                message, now)
        call == [NoGhostResult EXCEPT !.op = "create", !.at = now,
                                      !.sender_id = sender_id]
    IN  /\ IF ~can_send
           THEN /\ ghostResult' = [call EXCEPT
                        !.error = "you've reached the daily limit of ghost asks"]
                /\ UNCHANGED <<ghost_asks, notifications>>
           ELSE IF has_posted_in_window
           THEN /\ ghost_asks' = sent.ghost_asks
                /\ notifications' = sent.notifications
                /\ ghostResult' = [call EXCEPT
                        !.success = TRUE, !.ghost_ask_id = id, !.status = "sent",
                        !.message = "your ghost ask has been sent!"]
           ELSE /\ ghost_asks' = inserted
                /\ UNCHANGED notifications
                /\ ghostResult' = [call EXCEPT
                        !.success = TRUE, !.ghost_ask_id = id, !.status = "pending",
                        !.message = "ghost ask created but locked",
                        !.unlock_required = TRUE,
                        !.time_remaining_seconds = _get_time_until_unlock(sender_id, now),
                        !.persuasion_message =
                            generate_persuasion_message(sender_id, message, 1)]
        /\ UNCHANGED daily_challenges

\* create_ghost_ask while the table holds fewer than MaxGhostAsks rows.
CreateGhostAsk(sender_id, recipient_id, message) ==
    /\ Len(ghost_asks) < MaxGhostAsks
    /\ create_ghost_ask(sender_id, recipient_id, message)

\* GhostAskService.attempt_send_ghost_ask(ghost_ask_id, sender_id, force_send)
AttemptSendGhostAsk(ghost_ask_id, sender_id, force_send) ==
    LET found == ghost_ask_id \in 1..Len(ghost_asks)
                    /\ ghost_asks[ghost_ask_id].sender_id = sender_id
        ghost_ask == ghost_asks[ghost_ask_id]
        has_posted_in_window == _check_user_posted_in_challenge_window(sender_id, now)
        attempts == ghost_ask.persuasion_attempts + 1
        counted == [ghost_asks EXCEPT ![ghost_ask_id].persuasion_attempts = attempts]
        sentNow == _send_ghost_ask(ghost_asks, notifications, ghost_ask_id, sender_id,
                                   ghost_ask.recipient_id, ghost_ask.message, now)
        sentForced == _send_ghost_ask(counted, notifications, ghost_ask_id, sender_id,
                                      ghost_ask.recipient_id, ghost_ask.message, now)
        call == [NoGhostResult EXCEPT !.op = "attempt", !.at = now,
                                      !.sender_id = sender_id,
                                      !.request_id = ghost_ask_id]
    IN  /\ IF ~found
           THEN /\ ghostResult' = [call EXCEPT !.error = "Ghost ask not found"]
                /\ UNCHANGED <<ghost_asks, notifications>>
           ELSE IF ghost_ask.status = "sent"
           THEN /\ ghostResult' = [call EXCEPT !.error = "Ghost ask already sent"]
                /\ UNCHANGED <<ghost_asks, notifications>>
           ELSE IF has_posted_in_window
           THEN /\ ghost_asks' = sentNow.ghost_asks
                /\ notifications' = sentNow.notifications
                /\ ghostResult' = [call EXCEPT
                        !.success = TRUE, !.ghost_ask_id = ghost_ask_id,
                        !.status = "sent",
                        !.message = "your ghost ask has been sent!"]
           ELSE IF ForceSends(attempts, force_send)
           THEN /\ ghost_asks' = sentForced.ghost_asks
                /\ notifications' = sentForced.notifications
                /\ ghostResult' = [call EXCEPT
                        !.success = TRUE, !.ghost_ask_id = ghost_ask_id,
                        !.status = "sent",
                        !.message = "okay okay, you win. i'll send it this ONE time",
                        !.attempts = attempts]
           ELSE /\ ghost_asks' = counted
                /\ UNCHANGED notifications
                /\ ghostResult' = [call EXCEPT
                        !.ghost_ask_id = ghost_ask_id, !.status = "pending",
                        !.message = "still locked", !.unlock_required = TRUE,
                        !.time_remaining_seconds = _get_time_until_unlock(sender_id, now),
                        !.persuasion_message =
                            generate_persuasion_message(sender_id, ghost_ask.message, attempts),
                        !.attempts = attempts,
                        !.can_force_send = GivesIn(attempts)]
        /\ UNCHANGED daily_challenges

\* The upstream system writes the sender's latest daily_challenges row.
UpstreamChallenge(user_id, challenge_time, has_posted) ==
    /\ daily_challenges' = [daily_challenges EXCEPT ![user_id] =
            << [challenge_time |-> challenge_time, has_posted |-> has_posted] >>]
    /\ UNCHANGED <<ghost_asks, ghostResult, notifications>>

\* --------------------------------------------- ghost asks, call by call
\* create_ghost_ask and attempt_send_ghost_ask as steps, one per data store
\* operation; the responses of these calls are not recorded in ghostResult.
GhostStepTablesUnchanged ==
    UNCHANGED <<ghost_asks, notifications, daily_challenges, ghostResult>>

\* create_ghost_ask: _check_user_posted_in_challenge_window.
GhostCreateCheckPosted(c, sender_id, recipient_id, message) ==
    /\ Idle(c)
    /\ calls' = [calls EXCEPT ![c] =
           [op |-> "create_ghost_ask", pc |-> "rate_limits", sender_id |-> sender_id,
            recipient_id |-> recipient_id, message |-> message,
            has_posted_in_window |->
                _check_user_posted_in_challenge_window(sender_id, now)]]
    /\ GhostStepTablesUnchanged

\* create_ghost_ask: _check_rate_limits.
GhostCreateCheckRateLimits(c) ==
    /\ At(c, "create_ghost_ask", "rate_limits")
    /\ calls' =
          IF _check_rate_limits_ghost(ghost_asks, calls[c].sender_id, now)
          THEN [calls EXCEPT ![c].pc = "insert"]
          ELSE [calls EXCEPT ![c] = IdleCall]
    /\ GhostStepTablesUnchanged

\* The locals of a call that goes on to _send_ghost_ask.
SendingCall(ghost_ask_id, sender_id, recipient_id, message) ==
    [op |-> "_send_ghost_ask", pc |-> "update", ghost_ask_id |-> ghost_ask_id,
     sender_id |-> sender_id, recipient_id |-> recipient_id, message |-> message]

\* create_ghost_ask: the insert; an unlocked sender goes on to
\* _send_ghost_ask, a locked one returns (persuasion message, time left).
GhostCreateInsert(c) ==
    /\ At(c, "create_ghost_ask", "insert")
    /\ Len(ghost_asks) < MaxGhostAsks
    /\ ghost_asks' = Append(ghost_asks,
           [sender_id |-> calls[c].sender_id, recipient_id |-> calls[c].recipient_id,
            message |-> calls[c].message, status |-> "pending", created_at |-> now,
            sent_at |-> None, unlocked |-> calls[c].has_posted_in_window,
            persuasion_attempts |-> 0])
    /\ calls' =
          IF calls[c].has_posted_in_window
          THEN [calls EXCEPT ![c] =
                   SendingCall(Len(ghost_asks) + 1, calls[c].sender_id,
                               calls[c].recipient_id, calls[c].message)]
          ELSE [calls EXCEPT ![c] = IdleCall]
    /\ UNCHANGED <<notifications, daily_challenges, ghostResult>>

\* attempt_send_ghost_ask: the select by id and sender, and the status test
\* on the row read.
AttemptSelect(c, ghost_ask_id, sender_id) ==
    /\ Idle(c)
    /\ calls' =
          IF /\ ghost_ask_id \in 1..Len(ghost_asks)
             /\ ghost_asks[ghost_ask_id].sender_id = sender_id
             /\ ghost_asks[ghost_ask_id].status # "sent"
          THEN [calls EXCEPT ![c] =
                   [op |-> "attempt_send_ghost_ask", pc |-> "check_posted",
                    ghost_ask_id |-> ghost_ask_id, sender_id |-> sender_id,
                    ghost_ask |-> ghost_asks[ghost_ask_id]]]
          ELSE calls
    /\ GhostStepTablesUnchanged

\* attempt_send_ghost_ask: _check_user_posted_in_challenge_window; unlocked
\* goes on to _send_ghost_ask.
AttemptCheckPosted(c) ==
    /\ At(c, "attempt_send_ghost_ask", "check_posted")
    /\ calls' =
          IF _check_user_posted_in_challenge_window(calls[c].sender_id, now)
          THEN [calls EXCEPT ![c] =
                   SendingCall(calls[c].ghost_ask_id, calls[c].sender_id,
                               calls[c].ghost_ask.recipient_id, calls[c].ghost_ask.message)]
          ELSE [calls EXCEPT ![c].pc = "count"]
    /\ GhostStepTablesUnchanged

\* attempt_send_ghost_ask: the update of persuasion_attempts to the value
\* read plus one; more than 10 goes on to _send_ghost_ask, otherwise the
\* call returns the persuasion message.
AttemptCount(c) ==
    /\ At(c, "attempt_send_ghost_ask", "count")
    /\ LET attempts == calls[c].ghost_ask.persuasion_attempts + 1
       IN  /\ ghost_asks' = [ghost_asks EXCEPT
                  ![calls[c].ghost_ask_id].persuasion_attempts = attempts]
           /\ calls' =
                 IF GivesIn(attempts)
                 THEN [calls EXCEPT ![c] =
                          SendingCall(calls[c].ghost_ask_id, calls[c].sender_id,
                                      calls[c].ghost_ask.recipient_id,
                                      calls[c].ghost_ask.message)]
                 ELSE [calls EXCEPT ![c] = IdleCall]
    /\ UNCHANGED <<notifications, daily_challenges, ghostResult>>

\* _send_ghost_ask: update({status: sent, sent_at}).eq("id", ghost_ask_id)
SendUpdate(c) ==
    /\ At(c, "_send_ghost_ask", "update")
    /\ ghost_asks' = [ghost_asks EXCEPT ![calls[c].ghost_ask_id].status = "sent",
                                        ![calls[c].ghost_ask_id].sent_at = now]
    /\ calls' = [calls EXCEPT ![c].pc = "notify"]
    /\ UNCHANGED <<notifications, daily_challenges, ghostResult>>

\* _send_ghost_ask: the insert of the recipient's notification.
SendNotify(c) ==
    /\ At(c, "_send_ghost_ask", "notify")
    /\ notifications' =
           SentNotifications(notifications, calls[c].ghost_ask_id, calls[c].sender_id,
                             calls[c].recipient_id, calls[c].message, now)
    /\ calls' = [calls EXCEPT ![c] = IdleCall]
    /\ UNCHANGED <<ghost_asks, daily_challenges, ghostResult>>

\* ------------------------------------------------ other subsystems
\* ------------------------------------------------------------ warm intros
\* IntroService (intro_service.py).  An intro_requests row keeps the columns
\* the service reads back: requester_id, target_id, query_context, status,
\* created_at, expires_at, responded_at, updated_at.  The service never
\* writes updated_at; updated_at_maintained says whether the data store
\* stamps it on insert and on every update (a column default and trigger
\* outside this repository) or leaves it absent.
MaxIntroRequests == 2
max_intro_requests_per_day == 3
IntroExpiryDays == 7
CooldownDaysDeclined == 7
CooldownDaysExpired == 30
IntroContexts == {"ctx"}
IntroRequesters == {"u1"}

\* The value the store gives updated_at when a row is written at time t.
StoreUpdatedAt(old, t) == IF updated_at_maintained THEN t ELSE old

IntroRowsOf(reqs, requester_id, target_id, statuses) ==
    {i \in 1..Len(reqs) :
        /\ reqs[i].requester_id = requester_id
        /\ reqs[i].target_id = target_id
        /\ reqs[i].status \in statuses}

\* .in_("status", [PENDING])
DuplicateStatuses_None == {}
DuplicateStatuses == {"pending"}

\* IntroService._check_duplicate_request: the first matching row, or None.
_check_duplicate_request(reqs, requester_id, target_id) ==
    LET found == IntroRowsOf(reqs, requester_id, target_id, DuplicateStatuses)
    IN  IF found = {} THEN None
        ELSE CHOOSE i \in found : \A j \in found : i <= j

\* .order("created_at", desc=True).limit(1) over the declined/expired rows.
LastTerminal(reqs, requester_id, target_id) ==
    LET found == IntroRowsOf(reqs, requester_id, target_id, {"declined", "expired"})
        newest == {i \in found : \A j \in found : reqs[j].created_at <= reqs[i].created_at}
    IN  IF found = {} THEN None
        ELSE CHOOSE i \in newest : \A j \in newest : j <= i

\* IntroService._check_cooldown
_check_cooldown(reqs, requester_id, target_id, t) ==
    LET last == LastTerminal(reqs, requester_id, target_id)
        passed == [ok |-> TRUE, days_remaining |-> None, hours_remaining |-> None]
    IN  IF last = None THEN passed
        ELSE
            LET last_request == reqs[last]
                last_time ==
                    IF last_request.updated_at # None
                    THEN last_request.updated_at
                    ELSE last_request.created_at
                cooldown_days ==
                    IF last_request.status = "declined"
                    THEN CooldownDaysDeclined
                    ELSE CooldownDaysExpired
                cooldown_end == last_time + cooldown_days * MinutesPerDay
                time_remaining == cooldown_end - t
            IN  IF t < cooldown_end
                THEN [ok |-> FALSE,
                      days_remaining |-> time_remaining \div MinutesPerDay,
                      hours_remaining |->
                          (time_remaining % MinutesPerDay) \div MinutesPerHour]
                ELSE passed

\* IntroService._check_rate_limits: TRUE when the requester may create.
_check_rate_limits_intro_AnyStatus(reqs, user_id, t) ==
    LET cutoff_time == t - MinutesPerDay
        count == Cardinality({i \in 1..Len(reqs) :
                     /\ reqs[i].requester_id = user_id
                     /\ reqs[i].created_at >= cutoff_time})
    IN  ~(count >= max_intro_requests_per_day)
_check_rate_limits_intro(reqs, user_id, t) ==
    LET cutoff_time == t - MinutesPerDay
        count == Cardinality({i \in 1..Len(reqs) :
                     /\ reqs[i].requester_id = user_id
                     /\ reqs[i].status = "pending"
                     /\ reqs[i].created_at >= cutoff_time})
    IN  ~(count >= max_intro_requests_per_day)

\* The notification row _send_intro_notification inserts.
IntroNotification(intro_request_id, requester_id, target_id, query_context, t) ==
    [user_id |-> target_id, sender_id |-> requester_id, type |-> "intro_request",
     message |-> <<"wants to connect about: ", query_context>>,
     data |-> [intro_request_id |-> intro_request_id, requester_id |-> requester_id],
     created_at |-> t, read |-> FALSE]

\* The notification row _send_decline_notification inserts.
DeclineNotification(requester_id, t) ==
    [user_id |-> requester_id, sender_id |-> "system", type |-> "intro_declined",
     message |-> <<"Your connection request wasn't accepted this time">>,
     created_at |-> t, read |-> FALSE]

\* ai_service.generate_intro_message, as the text it is asked to produce.
generate_intro_message(requester_id, target_id, query_context) ==
    <<"intro", requester_id, target_id, query_context>>

NoIntroResult ==
    [op |-> "", at |-> None, requester_id |-> "", target_id |-> "",
     request_id |-> None, target_response |-> FALSE, raised |-> FALSE,
     success |-> FALSE, error |-> "", intro_request_id |-> None, status |-> "",
     days_remaining |-> None, hours_remaining |-> None, chat_id |-> None,
     intro_message |-> <<>>, count |-> None, failed_at |-> ""]

IntroTablesInit ==
    /\ intro_requests = <<>>
    /\ chats = <<>>
    /\ messages = <<>>
    /\ introResult = NoIntroResult

IntroInit ==
    /\ IntroTablesInit
    /\ updated_at_maintained = FALSE

\* IntroService.create_intro_request(requester_id, target_id, query_context, ...)
create_intro_request(requester_id, target_id, query_context) ==
    LET duplicate == _check_duplicate_request(intro_requests, requester_id, target_id)
        cooldown == _check_cooldown(intro_requests, requester_id, target_id, now)
        can_request == _check_rate_limits_intro(intro_requests, requester_id, now)
        id == Len(intro_requests) + 1
        call == [NoIntroResult EXCEPT !.op = "create", !.at = now,
                                      !.requester_id = requester_id,
                                      !.target_id = target_id]
        rejected(error) ==
            /\ introResult' = [call EXCEPT !.error = error,
                                   !.days_remaining = IF error = "cooldown"
                                       THEN cooldown.days_remaining ELSE None,
                                   !.hours_remaining = IF error = "cooldown"
                                       THEN cooldown.hours_remaining ELSE None]
            /\ UNCHANGED <<intro_requests, notifications>>
    IN  /\ IF requester_id = target_id
           THEN rejected("self")
           ELSE IF duplicate # None
           THEN rejected("duplicate")
           ELSE IF ~cooldown.ok
           THEN rejected("cooldown")
           ELSE IF ~can_request
           THEN rejected("daily_limit")
           ELSE
               /\ intro_requests' = Append(intro_requests,
                      [requester_id |-> requester_id, target_id |-> target_id,
                       query_context |-> query_context, status |-> "pending",
                       created_at |-> now,
                       expires_at |-> now + IntroExpiryDays * MinutesPerDay,
                       responded_at |-> None,
                       updated_at |-> StoreUpdatedAt(None, now)])
               /\ notifications' = Append(notifications,
                      IntroNotification(id, requester_id, target_id, query_context, now))
               /\ introResult' = [call EXCEPT !.success = TRUE,
                                      !.intro_request_id = id, !.status = "pending"]
        /\ UNCHANGED <<chats, messages, updated_at_maintained>>

\* create_intro_request while the table holds at most MaxIntroRequests rows.
CreateIntroRequest(requester_id, target_id, query_context) ==
    /\ create_intro_request(requester_id, target_id, query_context)
    /\ Len(intro_requests') <= MaxIntroRequests

\* IntroService._create_intro_chat: the chats and messages tables it leaves.
_create_intro_chat(intro, t) ==
    LET chat_id == Len(chats) + 1
        intro_message == generate_intro_message(intro.requester_id, intro.target_id,
                                                intro.query_context)
    IN  [chats |-> Append(chats, [chat_id |-> chat_id, user1 |-> intro.requester_id,
                                  user2 |-> intro.target_id, created_at |-> t]),
         messages |-> Append(messages, [chat_id |-> chat_id, sender_id |-> None,
                                        content |-> intro_message, created_at |-> t]),
         chat_id |-> chat_id, intro_message |-> intro_message]

\* The steps of _create_intro_chat that can raise: the AI call
\* (generate_intro_message re-raises), the chats insert, the messages insert.
IntroFailures == {"none", "generate_intro_message", "chats", "messages"}

\* _create_intro_chat when the named step raises: the rows inserted before
\* it stay (no transaction spans the two inserts), the exception propagates.
_create_intro_chat_raising_KeepsMessage(intro, t, failure) ==
    LET done == _create_intro_chat(intro, t)
    IN  [raised |-> failure # "none",
         chats |-> IF failure \in {"none", "messages"} THEN done.chats ELSE chats,
         messages |-> IF failure \in {"none", "messages"} THEN done.messages ELSE messages,
         chat_id |-> IF failure = "none" THEN done.chat_id ELSE None,
         intro_message |-> IF failure = "none" THEN done.intro_message ELSE <<>>]
_create_intro_chat_raising(intro, t, failure) ==
    LET done == _create_intro_chat(intro, t)
    IN  [raised |-> failure # "none",
         chats |-> IF failure \in {"none", "messages"} THEN done.chats ELSE chats,
         messages |-> IF failure = "none" THEN done.messages ELSE messages,
         chat_id |-> IF failure = "none" THEN done.chat_id ELSE None,
         intro_message |-> IF failure = "none" THEN done.intro_message ELSE <<>>]

\* respond_to_intro: the test on the row read, intro["status"] != PENDING;
\* the time of the call takes no part in it.
CanRespond_UntilExpiry(intro, t) == intro.status = "pending" /\ t <= intro.expires_at
CanRespond(intro, t) == intro.status = "pending"

\* IntroService.respond_to_intro(intro_request_id, target_response); failure
\* names the step of _create_intro_chat that raises during this call, if any.
respond_to_intro(intro_request_id, target_response, failure) ==
    LET call == [NoIntroResult EXCEPT !.op = "respond", !.at = now,
                                      !.request_id = intro_request_id,
                                      !.target_response = target_response]
    IN  /\ IF intro_request_id \notin 1..Len(intro_requests)
           THEN \* .single() finds no row and raises; the handler re-raises
               /\ introResult' = [call EXCEPT !.raised = TRUE, !.error = "not_found"]
               /\ UNCHANGED <<intro_requests, chats, messages, notifications>>
           ELSE
               LET intro == intro_requests[intro_request_id]
                   new_status == IF target_response THEN "accepted" ELSE "declined"
                   chat_result == _create_intro_chat_raising(intro, now, failure)
               IN  IF ~CanRespond(intro, now)
                   THEN
                       /\ introResult' = [call EXCEPT !.error = "already",
                                                      !.status = intro.status]
                       /\ UNCHANGED <<intro_requests, chats, messages, notifications>>
                   ELSE
                       /\ intro_requests' = [intro_requests EXCEPT
                              ![intro_request_id].status = new_status,
                              ![intro_request_id].responded_at = now,
                              ![intro_request_id].updated_at =
                                  StoreUpdatedAt(intro.updated_at, now)]
                       /\ IF target_response
                          THEN
                              /\ chats' = chat_result.chats
                              /\ messages' = chat_result.messages
                              /\ UNCHANGED notifications
                              /\ introResult' =
                                     IF chat_result.raised
                                     THEN [call EXCEPT !.raised = TRUE,
                                                       !.error = "create_intro_chat",
                                                       !.failed_at = failure]
                                     ELSE [call EXCEPT !.success = TRUE,
                                              !.status = new_status,
                                              !.chat_id = chat_result.chat_id,
                                              !.intro_message = chat_result.intro_message]
                          ELSE
                              /\ notifications' = Append(notifications,
                                     DeclineNotification(intro.requester_id, now))
                              /\ UNCHANGED <<chats, messages>>
                              /\ introResult' = [call EXCEPT !.success = TRUE,
                                                             !.status = new_status]
        /\ UNCHANGED updated_at_maintained

\* respond_to_intro when the AI provider and the data store answer.
RespondToIntro(intro_request_id, target_response) ==
    respond_to_intro(intro_request_id, target_response, "none")

\* .eq("status", PENDING).lt("expires_at", now)
Due_AtExpiry(row, t) == row.status = "pending" /\ row.expires_at <= t
Due(row, t) == row.status = "pending" /\ row.expires_at < t

\* IntroService.expire_old_requests as a function of the table and the time.
expire_old_requests(reqs, t) ==
    LET expired_ids == {i \in 1..Len(reqs) : Due(reqs[i], t)}
    IN  IF expired_ids = {}
        THEN [intro_requests |-> reqs, count |-> 0]
        ELSE [intro_requests |->
                  [i \in 1..Len(reqs) |->
                      IF i \in expired_ids
                      THEN [reqs[i] EXCEPT !.status = "expired",
                                           !.updated_at = StoreUpdatedAt(@, t)]
                      ELSE reqs[i]],
              count |-> Cardinality(expired_ids)]

ExpireOldRequests ==
    LET swept == expire_old_requests(intro_requests, now)
    IN  /\ intro_requests' = swept.intro_requests
        /\ introResult' = [NoIntroResult EXCEPT !.op = "expire", !.at = now,
                                                !.count = swept.count]
        /\ UNCHANGED <<chats, messages, notifications, updated_at_maintained>>

\* ------------------------------------------- warm intros, call by call
\* The same methods as steps, one step per data store operation that another
\* call can observe or overtake: a method called on one service instance
\* runs between the store operations of a method called on another.  A call
\* occupies a slot of calls from its first store operation until it returns;
\* calls that return at once leave the slot free.  The responses of these
\* calls are not recorded in introResult.
IntroStepTablesUnchanged ==
    UNCHANGED <<intro_requests, chats, messages, notifications, introResult,
                updated_at_maintained>>

\* create_intro_request up to and including _check_duplicate_request.
CreateCheckDuplicate(c, requester_id, target_id, query_context) ==
    /\ Idle(c)
    /\ calls' =
          IF requester_id = target_id
             \/ _check_duplicate_request(intro_requests, requester_id, target_id) # None
          THEN calls
          ELSE [calls EXCEPT ![c] =
                   [op |-> "create", pc |-> "cooldown", requester_id |-> requester_id,
                    target_id |-> target_id, query_context |-> query_context]]
    /\ IntroStepTablesUnchanged

\* create_intro_request: _check_cooldown.
CreateCheckCooldown(c) ==
    /\ At(c, "create", "cooldown")
    /\ calls' =
          IF _check_cooldown(intro_requests, calls[c].requester_id,
                             calls[c].target_id, now).ok
          THEN [calls EXCEPT ![c].pc = "rate_limits"]
          ELSE [calls EXCEPT ![c] = IdleCall]
    /\ IntroStepTablesUnchanged

\* create_intro_request: _check_rate_limits.
CreateCheckRateLimits(c) ==
    /\ At(c, "create", "rate_limits")
    /\ calls' =
          IF _check_rate_limits_intro(intro_requests, calls[c].requester_id, now)
          THEN [calls EXCEPT ![c].pc = "insert"]
          ELSE [calls EXCEPT ![c] = IdleCall]
    /\ IntroStepTablesUnchanged

\* create_intro_request: the insert and the target's notification.
CreateInsert(c) ==
    /\ At(c, "create", "insert")
    /\ Len(intro_requests) < MaxIntroRequests
    /\ intro_requests' = Append(intro_requests,
           [requester_id |-> calls[c].requester_id, target_id |-> calls[c].target_id,
            query_context |-> calls[c].query_context, status |-> "pending",
            created_at |-> now,
            expires_at |-> now + IntroExpiryDays * MinutesPerDay,
            responded_at |-> None,
            updated_at |-> StoreUpdatedAt(None, now)])
    /\ notifications' = Append(notifications,
           IntroNotification(Len(intro_requests) + 1, calls[c].requester_id,
                             calls[c].target_id, calls[c].query_context, now))
    /\ calls' = [calls EXCEPT ![c] = IdleCall]
    /\ UNCHANGED <<chats, messages, introResult, updated_at_maintained>>

\* respond_to_intro: the select by id and the status test on the row read.
RespondSelect(c, intro_request_id, target_response) ==
    /\ Idle(c)
    /\ calls' =
          IF intro_request_id \in 1..Len(intro_requests)
             /\ intro_requests[intro_request_id].status = "pending"
          THEN [calls EXCEPT ![c] =
                   [op |-> "respond", pc |-> "update",
                    intro_request_id |-> intro_request_id,
                    target_response |-> target_response,
                    intro |-> intro_requests[intro_request_id]]]
          ELSE calls
    /\ IntroStepTablesUnchanged

\* respond_to_intro: update({status, responded_at}).eq("id", intro_request_id)
RespondUpdate(c) ==
    /\ At(c, "respond", "update")
    /\ intro_requests' = [intro_requests EXCEPT
           ![calls[c].intro_request_id].status =
               IF calls[c].target_response THEN "accepted" ELSE "declined",
           ![calls[c].intro_request_id].responded_at = now,
           ![calls[c].intro_request_id].updated_at = StoreUpdatedAt(@, now)]
    /\ calls' = [calls EXCEPT ![c].pc = "finish"]
    /\ UNCHANGED <<chats, messages, notifications, introResult, updated_at_maintained>>

\* respond_to_intro: _create_intro_chat or _send_decline_notification.
RespondFinish(c) ==
    /\ At(c, "respond", "finish")
    /\ IF calls[c].target_response
       THEN /\ chats' = _create_intro_chat(calls[c].intro, now).chats
            /\ messages' = _create_intro_chat(calls[c].intro, now).messages
            /\ UNCHANGED notifications
       ELSE /\ notifications' = Append(notifications,
                   DeclineNotification(calls[c].intro.requester_id, now))
            /\ UNCHANGED <<chats, messages>>
    /\ calls' = [calls EXCEPT ![c] = IdleCall]
    /\ UNCHANGED <<intro_requests, introResult, updated_at_maintained>>

\* expire_old_requests: the select of the overdue pending ids.
ExpireSelect(c) ==
    /\ Idle(c)
    /\ LET expired_ids == {i \in 1..Len(intro_requests) : Due(intro_requests[i], now)}
       IN  calls' =
              IF expired_ids = {}
              THEN calls
              ELSE [calls EXCEPT ![c] =
                       [op |-> "expire", pc |-> "update", expired_ids |-> expired_ids]]
    /\ IntroStepTablesUnchanged

\* expire_old_requests: update({status: expired}).in_("id", expired_ids)
ExpireUpdate(c) ==
    /\ At(c, "expire", "update")
    /\ intro_requests' =
           [i \in 1..Len(intro_requests) |->
               IF i \in calls[c].expired_ids
               THEN [intro_requests[i] EXCEPT !.status = "expired",
                                              !.updated_at = StoreUpdatedAt(@, now)]
               ELSE intro_requests[i]]
    /\ calls' = [calls EXCEPT ![c] = IdleCall]
    /\ UNCHANGED <<chats, messages, notifications, introResult, updated_at_maintained>>

\* ------------------------------------------------------------ text values
\* A Python str is a sequence of tokens: "" is <<>>, concatenation is \o, and
\* the truth value of a str (or of a list) is that it is not empty.  An
\* Optional[str] is a sequence of at most one str: <<>> is None.
Truthy(text) == Len(text) > 0
OptTruthy(opt) == opt # <<>> /\ Truthy(opt[1])

\* ---------------------------------------------------------- post analysis
\* PostService (post_service.py).  post_insights maps a post_id to its row.
\* The list-valued insight columns are kept as the one column objects; a
\* confidence score is kept in tenths.
MaxAiCalls == 3
PostIds == {"p1", "p2"}
PostUsers == {"u1"}
ImageUrls == {<<>>, <<<<"img">>>>}
Captions == {<<>>, <<<<>>>>, <<<<"cap">>>>}
\* What the AI provider can answer: a failure, an empty JSON object, or an
\* analysis.
AiOutcomes == {"fail", "empty", "beach", "city"}

\* The dict an analysis call returns for a provider answer.
AiInsights(outcome) ==
    [location_guess |-> <<outcome>>, objects |-> <<outcome>>,
     summary |-> <<outcome>>, confidence_score |-> 8]

\* caption or "No content to analyze"
DegradedSummary(caption) ==
    IF OptTruthy(caption) THEN caption[1] ELSE <<"No content to analyze">>

DegradedInsights(caption) ==
    [location_guess |-> <<>>, objects |-> <<>>,
     summary |-> DegradedSummary(caption), confidence_score |-> 0]

\* PostInsights(**data): the model fields, other keys ignored.
PostInsights(data) ==
    [location_guess |-> data.location_guess, objects |-> data.objects,
     summary |-> data.summary, confidence_score |-> data.confidence_score]

\* PostService.get_cached_insights: the row as a sequence of 0 or 1 dicts.
get_cached_insights(post_id) ==
    IF post_id \in DOMAIN post_insights THEN <<post_insights[post_id]>> ELSE <<>>

\* if cached_insights:
CacheHit_Never(cached) == FALSE
CacheHit(cached) == cached # <<>>

\* PostService._store_post_insights: the table after the upsert.
_store_post_insights(post_id, user_id, insights, t) ==
    [p \in DOMAIN post_insights \cup {post_id} |->
        IF p = post_id
        THEN [post_id |-> post_id, user_id |-> user_id,
              location_guess |-> insights.location_guess,
              objects |-> insights.objects, summary |-> insights.summary,
              confidence_score |-> insights.confidence_score,
              analyzed_at |-> t]
        ELSE post_insights[p]]

NoPostResult ==
    [op |-> "", post_id |-> "", user_id |-> "", image_url |-> <<>>,
     caption |-> <<>>, ai |-> "", raised |-> FALSE, insights |-> <<>>]

PostInit ==
    /\ post_insights = <<>>
    /\ ai_calls = 0
    /\ insight_writes = 0
    /\ postResult = NoPostResult

\* PostService.analyze_post(user_id, post_id, image_url, caption, metadata);
\* ai is what the provider answers if it is asked.
AnalyzePost(user_id, post_id, image_url, caption, ai) ==
    LET cached_insights == get_cached_insights(post_id)
        asks_ai == OptTruthy(image_url) \/ OptTruthy(caption)
        insights_data ==
            IF asks_ai /\ ai # "empty" THEN AiInsights(ai) ELSE DegradedInsights(caption)
        call == [NoPostResult EXCEPT !.op = "analyze", !.post_id = post_id,
                     !.user_id = user_id, !.image_url = image_url,
                     !.caption = caption, !.ai = ai]
    IN  IF CacheHit(cached_insights)
        THEN
            /\ postResult' = [call EXCEPT !.insights = PostInsights(cached_insights[1])]
            /\ UNCHANGED <<post_insights, ai_calls, insight_writes>>
        ELSE
            /\ asks_ai => ai_calls < MaxAiCalls
            /\ ai_calls' = IF asks_ai THEN ai_calls + 1 ELSE ai_calls
            /\ IF asks_ai /\ ai = "fail"
               THEN \* the analysis call raises and analyze_post re-raises
                   /\ postResult' = [call EXCEPT !.raised = TRUE]
                   /\ UNCHANGED <<post_insights, insight_writes>>
               ELSE
                   /\ post_insights' =
                          _store_post_insights(post_id, user_id, insights_data, now)
                   /\ insight_writes' = insight_writes + 1
                   /\ postResult' = [call EXCEPT !.insights = PostInsights(insights_data)]

\* -------------------------------------------------------------------- chat
\* ChatService (chat_service.py) and the thread functions of AIService.
\* chat_sessions maps a thread_id to its row; the n-th thread the provider
\* creates has the id <<"thread", n>>.
MaxThreads == 1
MaxExchanges == 1
MaxChatTicks == 1
ChatMessages == {<<>>, <<"hi">>}
ChatPostIds == {<<"p1">>}
FaceMatchInputs == {<<>>, <<"alice">>}
ChatStarters == {"u1"}

ThreadIdOf(n) == <<"thread", n>>

\* The thread ids a caller may pass: the empty string and provider ids.
ThreadIdInputs == {<<>>} \cup {ThreadIdOf(n) : n \in 1..MaxThreads}

\* A post_insights row analyze_post has stored for a post without content.
StoredInsight ==
    [post_id |-> "p1", user_id |-> "u1", location_guess |-> <<>>, objects |-> <<>>,
     summary |-> <<"No content to analyze">>, confidence_score |-> 0,
     analyzed_at |-> 0]

\* .eq("thread_id", thread_id).eq("user_id", user_id).single()
SessionOf(thread_id, user_id) ==
    IF thread_id \in DOMAIN chat_sessions /\ chat_sessions[thread_id].user_id = user_id
    THEN <<chat_sessions[thread_id]>>
    ELSE <<>>

\* ChatService._build_face_context
_build_face_context(face_matches) ==
    IF ~Truthy(face_matches) THEN <<>>
    ELSE <<"[Face Recognition Results:]">> \o face_matches
             \o <<"If the user is asking 'who is in this picture?' ...">>

\* f"[Post context: {post_insights}]\n\n"
PostContext(insights) == <<"[Post context: ">> \o insights.summary \o <<"]\n\n">>

\* ChatService.send_message: the prompt it hands to the AI service.
FullMessage(message, effective_post_id, face_matches) ==
    LET post_insights_row ==
            IF effective_post_id # <<>>
            THEN get_cached_insights(effective_post_id[1])
            ELSE <<>>
        with_post ==
            IF post_insights_row # <<>>
            THEN PostContext(post_insights_row[1]) \o message
            ELSE message
    IN  IF Truthy(face_matches)
        THEN _build_face_context(face_matches) \o <<"\n\n">> \o with_post
        ELSE with_post

\* message_to_store = original_message if original_message else message
MessageToStore(message, original_message) ==
    IF Truthy(original_message) THEN original_message ELSE message

AiReply == <<"reply">>
AiApology == <<"sorry, i'm having trouble right now. can you try again?">>

\* AIService._store_conversation_in_thread: the history after the append.
_store_conversation_in_thread_Replaces(history, user_message, ai_response, t) ==
    <<[role |-> "user", content |-> user_message, timestamp |-> t],
      [role |-> "assistant", content |-> ai_response, timestamp |-> t]>>
_store_conversation_in_thread(history, user_message, ai_response, t) ==
    history \o <<[role |-> "user", content |-> user_message, timestamp |-> t],
                 [role |-> "assistant", content |-> ai_response, timestamp |-> t]>>

\* AIService.send_thread_message: the reply and the history it leaves;
\* ai_ok says whether the provider's completion succeeds.
send_thread_message(history, message, original_message, ai_ok, t) ==
    IF ai_ok
    THEN [response |-> AiReply,
          conversation_history |->
              _store_conversation_in_thread(history,
                  MessageToStore(message, original_message), AiReply, t)]
    ELSE [response |-> AiApology, conversation_history |-> history]

NoChatResult ==
    [op |-> "", user_id |-> "", thread_id |-> <<>>, message |-> <<>>,
     ai_ok |-> FALSE, raised |-> FALSE,
     error |-> "", success |-> FALSE, response |-> <<>>, result_thread_id |-> <<>>,
     messages |-> <<>>, total_messages |-> None]

ChatInit ==
    /\ chat_sessions = <<>>
    /\ threads_created = 0
    /\ chatResult = NoChatResult

\* ChatService.send_message(user_id, message, thread_id, post_id, image_url,
\* face_matches), get_or_create_session included; thread_id and post_id are
\* Optional[str].  store_ok says whether the data store answers the session
\* lookup or insert of get_or_create_session; ai_ok whether the provider's
\* completion succeeds.
SendMessage(user_id, message, thread_id, post_id, face_matches, ai_ok, store_ok) ==
    LET call == [NoChatResult EXCEPT !.op = "send", !.user_id = user_id,
                     !.thread_id = thread_id, !.message = message,
                     !.ai_ok = ai_ok]
        existing == IF thread_id # <<>> THEN SessionOf(thread_id[1], user_id) ELSE <<>>
        creates == ~OptTruthy(thread_id)
        tid == IF creates THEN ThreadIdOf(threads_created + 1) ELSE thread_id[1]
        session ==
            IF creates
            THEN [thread_id |-> tid, user_id |-> user_id, post_id |-> post_id,
                  conversation_history |-> <<>>, created_at |-> now,
                  last_activity |-> now]
            ELSE existing[1]
        effective_post_id == IF OptTruthy(post_id) THEN post_id ELSE session.post_id
        full_message == FullMessage(message, effective_post_id, face_matches)
        sent == send_thread_message(session.conversation_history, full_message,
                                    message, ai_ok, now)
    IN  IF ~store_ok
        THEN \* the select or the insert on chat_sessions raises; a new provider
             \* thread was created before the insert
            /\ creates => threads_created < MaxThreads
            /\ threads_created' = IF creates THEN threads_created + 1 ELSE threads_created
            /\ chatResult' = [call EXCEPT !.raised = TRUE, !.error = "database"]
            /\ UNCHANGED chat_sessions
        ELSE IF ~creates /\ existing = <<>>
        THEN \* get_or_create_session raises "Thread ... not found for user ..."
            /\ chatResult' = [call EXCEPT !.raised = TRUE, !.error = "not_found"]
            /\ UNCHANGED <<chat_sessions, threads_created>>
        ELSE
            /\ creates => threads_created < MaxThreads
            /\ ai_ok => Len(session.conversation_history) < 2 * MaxExchanges
            /\ threads_created' = IF creates THEN threads_created + 1 ELSE threads_created
            /\ chat_sessions' =
                   [t \in DOMAIN chat_sessions \cup {tid} |->
                       IF t = tid
                       THEN [session EXCEPT
                                !.conversation_history = sent.conversation_history,
                                !.last_activity = now]
                       ELSE chat_sessions[t]]
            /\ chatResult' = [call EXCEPT !.success = TRUE, !.response = sent.response,
                                          !.result_thread_id = tid]

\* ChatService.get_session_history(thread_id, user_id)
GetSessionHistory(thread_id, user_id) ==
    LET call == [NoChatResult EXCEPT !.op = "history",
                     !.user_id = user_id, !.thread_id = <<thread_id>>]
        found == SessionOf(thread_id, user_id)
    IN  /\ IF found = <<>>
           THEN chatResult' = [call EXCEPT !.raised = TRUE, !.error = "not_found"]
           ELSE chatResult' = [call EXCEPT !.success = TRUE,
                    !.result_thread_id = thread_id,
                    !.messages = found[1].conversation_history,
                    !.total_messages = Len(found[1].conversation_history)]
        /\ UNCHANGED <<chat_sessions, threads_created>>

\* ChatService.delete_session(thread_id, user_id)
DeleteSession(thread_id, user_id) ==
    LET call == [NoChatResult EXCEPT !.op = "delete",
                     !.user_id = user_id, !.thread_id = <<thread_id>>]
        found == SessionOf(thread_id, user_id)
    IN  /\ IF found = <<>>
           THEN /\ chatResult' = [call EXCEPT !.raised = TRUE, !.error = "not_found"]
                /\ UNCHANGED chat_sessions
           ELSE /\ chatResult' = [call EXCEPT !.success = TRUE]
                /\ chat_sessions' =
                       [t \in DOMAIN chat_sessions \ {thread_id} |-> chat_sessions[t]]
        /\ UNCHANGED threads_created

\* --------------------------------------------------- chat, call by call
\* ChatService.send_message on an existing thread as steps, one per data
\* store write or read-for-write and one for the provider's completion.  The requests
\* carry a message and no post or image.  A call is marked overlapped when
\* another call on the same thread is in flight at any time between its
\* first step and its return.
RaceMessages == {<<"a">>, <<"b">>}
MaxRaceExchanges == 2

InFlightOn(thread_id) ==
    {c \in CallIds : calls[c].op = "send_message" /\ calls[c].thread_id = thread_id}

\* send_message: get_or_create_session with the request's thread_id, and
\* the get_thread_messages of send_thread_message, whose result only feeds
\* the prompt.
SendSelectSession(c, user_id, thread_id, message) ==
    /\ Idle(c)
    /\ calls' =
          IF SessionOf(thread_id, user_id) = <<>>
          THEN calls
          ELSE [d \in CallIds |->
                   IF d = c
                   THEN [op |-> "send_message", pc |-> "completion",
                         user_id |-> user_id, thread_id |-> thread_id,
                         message |-> message, response |-> <<>>, ai_ok |-> FALSE,
                         current_history |-> <<>>,
                         overlapped |-> InFlightOn(thread_id) # {}]
                   ELSE IF d \in InFlightOn(thread_id)
                   THEN [calls[d] EXCEPT !.overlapped = TRUE]
                   ELSE calls[d]]
    /\ UNCHANGED <<chat_sessions, threads_created, chatResult>>

\* send_thread_message: the provider's completion; when it fails the method
\* returns the canned apology without storing anything.
SendCompletion_StoresOnFailure(c, ai_ok) ==
    /\ At(c, "send_message", "completion")
    /\ calls' = [calls EXCEPT
           ![c].ai_ok = ai_ok,
           ![c].response = IF ai_ok THEN AiReply ELSE AiApology,
           ![c].pc = "store_select"]
    /\ UNCHANGED <<chat_sessions, threads_created, chatResult>>
SendCompletion(c, ai_ok) ==
    /\ At(c, "send_message", "completion")
    /\ calls' = [calls EXCEPT
           ![c].ai_ok = ai_ok,
           ![c].response = IF ai_ok THEN AiReply ELSE AiApology,
           ![c].pc = IF ai_ok THEN "store_select" ELSE "last_activity"]
    /\ UNCHANGED <<chat_sessions, threads_created, chatResult>>

\* _store_conversation_in_thread: the select of the current history.
StoreSelect(c) ==
    /\ At(c, "send_message", "store_select")
    /\ calls' = [calls EXCEPT
           ![c].current_history = chat_sessions[calls[c].thread_id].conversation_history,
           ![c].pc = "store_update"]
    /\ UNCHANGED <<chat_sessions, threads_created, chatResult>>

\* _store_conversation_in_thread: the update with the history read plus the
\* two new entries.
StoreUpdate(c) ==
    /\ At(c, "send_message", "store_update")
    /\ Len(calls[c].current_history) < 2 * MaxRaceExchanges
    /\ chat_sessions' = [chat_sessions EXCEPT
           ![calls[c].thread_id].conversation_history =
               _store_conversation_in_thread(calls[c].current_history,
                   MessageToStore(FullMessage(calls[c].message, <<>>, <<>>),
                                  calls[c].message),
                   calls[c].response, now)]
    /\ calls' = [calls EXCEPT ![c].pc = "last_activity"]
    /\ UNCHANGED <<threads_created, chatResult>>

\* send_message: the last_activity update, and the return of the call's
\* response.
SendTouch(c) ==
    /\ At(c, "send_message", "last_activity")
    /\ chat_sessions' = [chat_sessions EXCEPT ![calls[c].thread_id].last_activity = now]
    /\ calls' = [calls EXCEPT ![c] = IdleCall]
    /\ UNCHANGED <<threads_created, chatResult>>

\* ---------------------------------------------- services/network_service.py
\* search_network_semantic: one match task per connection, run in parallel
\* under a semaphore; the tasks' results are gathered in task order.
MaxNetConnections == 3
min_match_score == 3
ParallelSettings == {1, 2, 10}
AiMatchOutcomes == {"fail", "malformed", "nomatch", "low", "mid", "high"}
NoMatchTask == "none"

\* all_conn_ids, in the order the tasks are created: first-degree connections
\* first, then second-degree ones.
all_conn_ids == 1..MaxNetConnections
DegreeOf(conn_id) == IF conn_id <= (MaxNetConnections + 1) \div 2 THEN 1 ELSE 2

\* What the provider's JSON answer holds for each outcome of a call that
\* came back; "malformed" is an answer without the expected keys.
AiMatchAnswer(outcome) ==
    CASE outcome = "nomatch" ->
            [is_match |-> FALSE, match_score |-> 0, match_reasons |-> <<>>, confidence |-> 9]
      [] outcome = "low" ->
            [is_match |-> TRUE, match_score |-> 2, match_reasons |-> <<"weak">>, confidence |-> 3]
      [] outcome = "mid" ->
            [is_match |-> TRUE, match_score |-> 5, match_reasons |-> <<"school">>, confidence |-> 6]
      [] outcome = "high" ->
            [is_match |-> TRUE, match_score |-> 8, match_reasons |-> <<"posts">>, confidence |-> 9]
      [] OTHER -> [malformed |-> TRUE]

\* The default no-match answer of the except branch.
DefaultNoMatch ==
    [is_match |-> FALSE, match_score |-> 0, match_reasons |-> <<>>, confidence |-> 0]

match_user_to_query_semantic_FailureMatches(outcome) ==
    IF outcome = "fail" THEN AiMatchAnswer("high") ELSE AiMatchAnswer(outcome)

\* ai_service.match_user_to_query_semantic: the provider's answer, or the
\* default no-match when the call fails.
match_user_to_query_semantic(outcome) ==
    IF outcome = "fail" THEN DefaultNoMatch ELSE AiMatchAnswer(outcome)

\* match_single_user: the result dict when the answer is a match with a score
\* of at least min_match_score, None (no dict) otherwise and on any exception
\* (a missing key in the answer).
match_single_user(conn_id, outcome) ==
    LET match_result == match_user_to_query_semantic(outcome) IN
    IF "is_match" \notin DOMAIN match_result
    THEN <<>>
    ELSE IF match_result.is_match /\ match_result.match_score >= min_match_score
         THEN << [user_id       |-> conn_id,
                  degree        |-> DegreeOf(conn_id),
                  match_score   |-> match_result.match_score,
                  match_reasons |-> match_result.match_reasons,
                  confidence    |-> match_result.confidence] >>
         ELSE <<>>

\* The result dicts of one degree, in task order.
RECURSIVE MatchesOfDegree(_, _, _)
MatchesOfDegree(results, degree, upto) ==
    IF upto = 0
    THEN <<>>
    ELSE LET rest == MatchesOfDegree(results, degree, upto - 1) IN
         IF results[upto] # <<>> /\ results[upto][1].degree = degree
         THEN Append(rest, results[upto][1])
         ELSE rest

\* list.sort(key=match_score, reverse=True): stable, highest score first.
RECURSIVE SortByScore(_)
SortByScore(matches) ==
    IF matches = <<>>
    THEN <<>>
    ELSE LET sorted == SortByScore(SubSeq(matches, 1, Len(matches) - 1))
             last   == matches[Len(matches)]
             k      == Cardinality({j \in 1..Len(sorted) :
                                      sorted[j].match_score >= last.match_score})
         IN SubSeq(sorted, 1, k) \o <<last>> \o SubSeq(sorted, k + 1, Len(sorted))

\* The pair of lists the search returns for the gathered results.
SearchLists(results) ==
    [first_degree_matches  |-> SortByScore(MatchesOfDegree(results, 1, MaxNetConnections)),
     second_degree_matches |-> SortByScore(MatchesOfDegree(results, 2, MaxNetConnections))]

NoSearchResult ==
    [returned |-> FALSE, raised |-> FALSE,
     first_degree_matches |-> <<>>, second_degree_matches |-> <<>>]

NetIdle ==
    /\ max_parallel_ai_requests = 10
    /\ ai_outcomes = [c \in all_conn_ids |-> "nomatch"]
    /\ match_tasks = [c \in all_conn_ids |-> NoMatchTask]
    /\ all_results = [c \in all_conn_ids |-> <<>>]
    /\ searchResult = NoSearchResult

\* No route has answered yet.  response and thread_id are Optional[str].
NoRouteResult ==
    [route |-> "", user_id |-> "",
     request_thread_id |-> <<>>, success |-> FALSE, error |-> "",
     rejected_by |-> "", called |-> {}, response |-> <<>>, thread_id |-> <<>>]

CallsInit ==
    /\ NetIdle
    /\ calls = [c \in CallIds |-> IdleCall]
    /\ routeResult = NoRouteResult

\* The search has read the connections and their signals and created one
\* task per connection; every task waits for the semaphore.
NetInit ==
    /\ max_parallel_ai_requests \in ParallelSettings
    /\ ai_outcomes \in [all_conn_ids -> AiMatchOutcomes]
    /\ match_tasks = [c \in all_conn_ids |-> "waiting"]
    /\ all_results = [c \in all_conn_ids |-> <<>>]
    /\ searchResult = NoSearchResult

Running == {c \in all_conn_ids : match_tasks[c] = "running"}

\* match_with_limit enters "async with semaphore" and issues the AI call.
MatchAcquire_NoSemaphore(conn_id) ==
    /\ match_tasks[conn_id] = "waiting"
    /\ match_tasks' = [match_tasks EXCEPT ![conn_id] = "running"]
    /\ UNCHANGED <<max_parallel_ai_requests, ai_outcomes, all_results, searchResult>>
MatchAcquire(conn_id) ==
    /\ match_tasks[conn_id] = "waiting"
    /\ Cardinality(Running) < max_parallel_ai_requests
    /\ match_tasks' = [match_tasks EXCEPT ![conn_id] = "running"]
    /\ UNCHANGED <<max_parallel_ai_requests, ai_outcomes, all_results, searchResult>>

\* The AI call of one task ends (answer or failure); the task returns its
\* result and releases the semaphore.
MatchComplete(conn_id) ==
    /\ match_tasks[conn_id] = "running"
    /\ match_tasks' = [match_tasks EXCEPT ![conn_id] = "done"]
    /\ all_results' = [all_results EXCEPT
                          ![conn_id] = match_single_user(conn_id, ai_outcomes[conn_id])]
    /\ UNCHANGED <<max_parallel_ai_requests, ai_outcomes, searchResult>>

\* asyncio.gather has every result: split by degree, sort, return.
SearchReturn ==
    /\ ~searchResult.returned
    /\ \A c \in all_conn_ids : match_tasks[c] = "done"
    /\ searchResult' = [returned |-> TRUE, raised |-> FALSE] @@ SearchLists(all_results)
    /\ UNCHANGED <<max_parallel_ai_requests, ai_outcomes, match_tasks, all_results>>

\* ------------------------------------------------- api/network_query.py
\* query_network after the search: the NetworkMatch list of the response.
\* First-degree matches up to max_results; second-degree ones, up to
\* max_results, only when the search returned no first-degree match.
Prefix(matches, n) == SubSeq(matches, 1, IF Len(matches) < n THEN Len(matches) ELSE n)

NetworkMatch(match, degree) ==
    [user_id |-> match.user_id, degree |-> degree, why_match |-> match.match_reasons,
     action |-> IF degree = 2 THEN "offer_intro" ELSE ""]

NetworkMatches(matches, degree) ==
    [i \in 1..Len(matches) |-> NetworkMatch(matches[i], degree)]

query_network_matches_FillsWithSecond(first_degree_matches, second_degree_matches, max_results) ==
    Prefix(NetworkMatches(first_degree_matches, 1)
              \o NetworkMatches(second_degree_matches, 2), max_results)
query_network_matches(first_degree_matches, second_degree_matches, max_results) ==
    LET matches == NetworkMatches(Prefix(first_degree_matches, max_results), 1)
    IN  IF first_degree_matches = <<>> /\ second_degree_matches # <<>>
        THEN matches \o NetworkMatches(Prefix(second_degree_matches, max_results), 2)
        ELSE matches

\* The NetworkQueryResponse of a request with this max_results.
NetworkQueryResponse(found, max_results) ==
    LET matches == query_network_matches(found.first_degree_matches,
                                         found.second_degree_matches, max_results)
    IN  [route |-> "network_query", success |-> TRUE, max_results |-> max_results,
         matches |-> matches, total_matches |-> Len(matches),
         has_first_degree |-> Len(found.first_degree_matches) > 0,
         has_second_degree |-> Len(found.second_degree_matches) > 0]

\* ------------------------------------------------------------ api/chat.py
\* The two chat routes, POST /api/chat/message and POST /api/chat/continue:
\* the two rate-limit gates, the location branch, face recognition and the
\* chat service, in the order of the code.
CHAT_MESSAGE_PER_USER_HOUR == 100

\* key = f"user:{user_id}:{operation}"
UserKey(user_id, operation) ==
    [u1 |-> [chat_message |-> "user:u1:chat_message",
             chat_message_minute |-> ChatMinuteKey,
             ghost_ask_create |-> GhostCreateKey],
     u2 |-> [chat_message |-> "user:u2:chat_message",
             chat_message_minute |-> "user:u2:chat_message_minute",
             ghost_ask_create |-> "user:u2:ghost_ask_create"]][user_id][operation]

\* LocationChatService.location_keywords and network_location_keywords
location_keywords ==
    {"near me", "nearby", "close to me", "around me", "in my area", "local",
     "where is", "find", "best", "coffee", "restaurant", "food", "shopping",
     "gym", "park", "hospital", "pharmacy", "gas station", "atm", "bank",
     "hotel", "bar", "club"}
network_location_keywords ==
    {"who in my network", "who is near me", "who is close to me",
     "who is around me", "who is in my area", "who is nearby",
     "network near me", "friends near me", "connections near me"}

\* LocationChatService.is_location_query: some keyword occurs in the message.
is_location_query(message) ==
    \E i \in 1..Len(message) :
        message[i] \in location_keywords \cup network_location_keywords

\* LocationChatService.generate_location_response: None when the user's
\* posts give no location, a text in every other case (the text of its own
\* except branch included).
generate_location_response(user_location) ==
    IF user_location = <<>> THEN <<>>
    ELSE <<<<"Here are some great places near ">> \o user_location[1]>>

\* What a rate-limit check leaves in rlResult.
RlResult(key, limit, window_minutes, t, r) ==
    [key |-> key, limit |-> limit, window_minutes |-> window_minutes, at |-> t,
     is_allowed |-> r.is_allowed, current_count |-> r.current_count,
     time_until_reset |-> r.time_until_reset]

\* The except block of continue_conversation: the error text by what the
\* exception says (send_chat_message returns str(e) itself).
RouteError(error) ==
    IF error = "not_found" THEN "session_not_found"
    ELSE IF error = "database" THEN "database" ELSE "unexpected"

\* The two gates of the chat routes, the hourly one first: what each check
\* returns and leaves.  The per-minute check runs on what the hourly check
\* left, and its outcome counts only when the hourly check allowed.
ChatGates_MinuteAtHourlyLimit(user_id, reqs, lastc, t) ==
    LET hour == check_rate_limit(reqs, lastc, UserKey(user_id, "chat_message"),
                    CHAT_MESSAGE_PER_USER_HOUR, MinutesPerHour, t)
    IN  [hour |-> hour,
         minute |-> check_rate_limit(hour.requests, hour.last_cleanup,
                        UserKey(user_id, "chat_message_minute"),
                        CHAT_MESSAGE_PER_USER_HOUR, 1, t)]
ChatGates(user_id, reqs, lastc, t) ==
    LET hour == check_rate_limit(reqs, lastc, UserKey(user_id, "chat_message"),
                    CHAT_MESSAGE_PER_USER_HOUR, MinutesPerHour, t)
    IN  [hour |-> hour,
         minute |-> check_rate_limit(hour.requests, hour.last_cleanup,
                        UserKey(user_id, "chat_message_minute"),
                        CHAT_MESSAGE_PER_USER_MINUTE, 1, t)]

\* send_chat_message (route = "message", thread_id = None) and
\* continue_conversation (route = "continue", thread_id = request.thread_id).
\* user_location is what get_user_location_from_posts finds, matches what
\* face recognition finds in the image.
ChatRoute(route, user_id, message, thread_id, post_id, image_url, user_location, matches, ai_ok, store_ok) ==
    LET hour_key == UserKey(user_id, "chat_message")
        minute_key == UserKey(user_id, "chat_message_minute")
        request == [NoRouteResult EXCEPT !.route = route, !.user_id = user_id,
                       !.request_thread_id = thread_id]
        location_query == is_location_query(message)
        location_response ==
            IF location_query THEN generate_location_response(user_location)
            ELSE <<>>
        face_matches == IF OptTruthy(image_url) THEN matches ELSE <<>>
        called == (IF location_query THEN {"location"} ELSE {})
                      \cup (IF OptTruthy(image_url) THEN {"face"} ELSE {})
                      \cup {"chat"}
    IN  \E gates \in {ChatGates(user_id, requests, last_cleanup, now)} :
        LET hour == gates.hour
            minute == gates.minute
        IN
        IF ~hour.is_allowed
        THEN /\ requests' = hour.requests
             /\ last_cleanup' = hour.last_cleanup
             /\ rlResult' = RlResult(hour_key, CHAT_MESSAGE_PER_USER_HOUR,
                                     MinutesPerHour, now, hour)
             /\ routeResult' = [request EXCEPT !.error = "rate_limit",
                                               !.rejected_by = "chat_message"]
             /\ UNCHANGED chatVars
        ELSE
             /\ requests' = minute.requests
             /\ last_cleanup' = minute.last_cleanup
             /\ rlResult' = RlResult(minute_key, CHAT_MESSAGE_PER_USER_MINUTE,
                                     1, now, minute)
             /\ IF ~minute.is_allowed
                THEN /\ routeResult' = [request EXCEPT !.error = "rate_limit",
                                           !.rejected_by = "chat_message_minute"]
                     /\ UNCHANGED chatVars
                ELSE IF OptTruthy(location_response)
                THEN /\ routeResult' =
                            [request EXCEPT !.success = TRUE,
                                !.response = location_response,
                                !.thread_id = thread_id,
                                !.called = {"location"}]
                     /\ UNCHANGED chatVars
                ELSE /\ SendMessage(user_id, message, thread_id, post_id,
                                    face_matches, ai_ok, store_ok)
                     /\ routeResult' =
                            IF chatResult'.raised
                            THEN [request EXCEPT
                                     !.error = IF route = "continue"
                                               THEN RouteError(chatResult'.error)
                                               ELSE chatResult'.error,
                                     !.called = called]
                            ELSE [request EXCEPT !.success = TRUE,
                                     !.response = <<chatResult'.response>>,
                                     !.thread_id = <<chatResult'.result_thread_id>>,
                                     !.called = called]

\* ------------------------------------------------------- api/ghost_ask.py
\* POST /api/ghost-ask/create: the per-user gate, the per-IP gate, then the
\* service.  All requests come from one client address.
GHOST_ASK_CREATE_PER_IP_DAY == 10
GhostIpKey == "ip:10.0.0.1:ghost_ask_create"

\* The two gates of the route, the per-user one first.
GhostGates_RecordsWhenBothPass(sender_id, reqs, lastc, t) ==
    LET user == check_rate_limit(reqs, lastc, UserKey(sender_id, "ghost_ask_create"),
                    GHOST_ASK_CREATE_PER_USER_DAY, MinutesPerDay, t)
        ip == check_rate_limit(user.requests, user.last_cleanup, GhostIpKey,
                    GHOST_ASK_CREATE_PER_IP_DAY, MinutesPerDay, t)
    IN  [user |-> user,
         ip |-> IF ip.is_allowed THEN ip
                ELSE [ip EXCEPT !.requests =
                         [k \in DOMAIN reqs \cup {GhostIpKey} |-> EntriesOf(reqs, k)]]]
GhostGates(sender_id, reqs, lastc, t) ==
    LET user == check_rate_limit(reqs, lastc, UserKey(sender_id, "ghost_ask_create"),
                    GHOST_ASK_CREATE_PER_USER_DAY, MinutesPerDay, t)
    IN  [user |-> user,
         ip |-> check_rate_limit(user.requests, user.last_cleanup, GhostIpKey,
                    GHOST_ASK_CREATE_PER_IP_DAY, MinutesPerDay, t)]

\* create_ghost_ask of api/ghost_ask.py
GhostCreateRoute(sender_id, recipient_id, message) ==
    LET request == [NoRouteResult EXCEPT !.route = "ghost_create",
                                         !.user_id = sender_id]
    IN  \E gates \in {GhostGates(sender_id, requests, last_cleanup, now)} :
        LET user == gates.user
            ip == gates.ip
        IN
        IF ~user.is_allowed
        THEN /\ requests' = user.requests
             /\ last_cleanup' = user.last_cleanup
             /\ rlResult' = RlResult(UserKey(sender_id, "ghost_ask_create"),
                                GHOST_ASK_CREATE_PER_USER_DAY, MinutesPerDay, now, user)
             /\ routeResult' = [request EXCEPT !.error = "rate_limit",
                                               !.rejected_by = "user"]
             /\ UNCHANGED <<ghostVars, notifications>>
        ELSE /\ requests' = ip.requests
             /\ last_cleanup' = ip.last_cleanup
             /\ rlResult' = RlResult(GhostIpKey, GHOST_ASK_CREATE_PER_IP_DAY,
                                     MinutesPerDay, now, ip)
             /\ IF ~ip.is_allowed
                THEN /\ routeResult' = [request EXCEPT !.error = "rate_limit",
                                                       !.rejected_by = "ip"]
                     /\ UNCHANGED <<ghostVars, notifications>>
                ELSE /\ create_ghost_ask(sender_id, recipient_id, message)
                     /\ routeResult' = [request EXCEPT
                            !.success = ghostResult'.success,
                            !.error = ghostResult'.error,
                            !.called = {"ghost_ask"}]

\* ------------------------------------------------------- the rate limiter
RateJumps == {1, MinutesPerDay - 1}

InitRate ==
    /\ ClockInit /\ RateInit /\ GhostInit /\ IntroInit /\ ChatInit /\ PostInit /\ CallsInit
    /\ notifications = <<>>

RateCheck ==
    \E key \in RateKeys :
        /\ CheckRateLimit(key)
        /\ UNCHANGED <<clockVars, ghostVars, notifications, introVars, chatVars, postVars, callVars>>

RateTick ==
    \E d \in RateJumps :
        /\ Tick(d)
        /\ UNCHANGED <<rateVars, ghostVars, notifications, introVars, chatVars, postVars, callVars>>

NextRate == RateCheck \/ RateTick

SpecRate == InitRate /\ [][NextRate]_vars

\* The entries of a key that count at time t for the window the key is checked with.
InWindow(reqs, key, t) ==
    SumCounts(NewerThan(EntriesOf(reqs, key), t - KeyWindow(key)))

\* C6: a call is rejected only when the limit's worth of recorded calls, all of
\* them allowed ones, lie inside the window that ends at the call (so the first
\* L calls from an empty key pass and the next one inside the window does not),
\* and a call is allowed, and recorded, as soon as fewer than L recorded calls
\* are left in the window (so once the oldest of L is W minutes old the key
\* opens again).
C6_WindowedLimit ==
    rlResult.at # None =>
        LET entries == EntriesOf(requests, rlResult.key)
            n == Len(entries)
            L == rlResult.limit
            cutoff == rlResult.at - rlResult.window_minutes
        IN  /\ ~rlResult.is_allowed =>
                /\ n >= L
                /\ entries[n - L + 1][1] > cutoff
            /\ rlResult.is_allowed =>
                /\ n >= 1
                /\ entries[n] = <<rlResult.at, 1>>
                /\ n > L => entries[n - L][1] <= cutoff

\* C6 witness: the key was filled to its limit, and a later call, made when the
\* oldest recorded entry was more than W minutes old, was allowed and recorded.
C6_Witness ==
    /\ rlResult.at # None
    /\ rlResult.is_allowed
    /\ rlResult.key = ChatMinuteKey
    /\ Len(EntriesOf(requests, ChatMinuteKey)) = CHAT_MESSAGE_PER_USER_MINUTE + 1
    /\ EntriesOf(requests, ChatMinuteKey)[CHAT_MESSAGE_PER_USER_MINUTE][1]
           < rlResult.at - rlResult.window_minutes

\* A step in which check_rate_limit did something a caller can see.
RateStep == rlResult' # rlResult \/ requests' # requests

\* The decision and the recording of one check_rate_limit step.
C7_DecisionAndRecord ==
    LET r == rlResult'
        before == InWindow(requests, r.key, r.at)
    IN  /\ r.is_allowed <=> before < r.limit
        /\ r.current_count = before
        /\ r.is_allowed =>
            /\ InWindow(requests', r.key, r.at) = before + 1
            /\ EntriesOf(requests', r.key)[Len(EntriesOf(requests', r.key))] = <<r.at, 1>>

\* Every key checked with its own limit and window stays within the limit.
C7_WithinLimit ==
    \A key \in RateKeys : InWindow(requests, key, now) <= KeyLimit(key)

\* C7 as claimed: a call is allowed exactly when the key's in-window count is
\* below the limit, an allowed call appends one entry, a rejected call leaves
\* the recorded entries of every key as they were, and no key exceeds its limit.
C7_RejectionChangesNothing ==
    /\ []C7_WithinLimit
    /\ [][RateStep =>
            /\ C7_DecisionAndRecord
            /\ ~rlResult'.is_allowed => requests' = requests]_vars

\* C7 amended: as claimed, except that a rejected call may run the hourly
\* housekeeping: it adds no entry to any key and leaves every entry of the last
\* 24 hours in place, and may drop entries older than 24 hours.
C7_RejectionRecordsNothing ==
    /\ []C7_WithinLimit
    /\ [][RateStep =>
            /\ C7_DecisionAndRecord
            /\ ~rlResult'.is_allowed =>
                \A key \in RateKeys :
                    LET old == EntriesOf(requests, key)
                        new == EntriesOf(requests', key)
                        dayAgo == rlResult'.at - CleanupCutoffDays * MinutesPerDay
                    IN  /\ new \in {old, NewerThan(old, dayAgo)}
                        /\ NewerThan(new, dayAgo) = NewerThan(old, dayAgo)]_vars

\* C7 witness: a rejected call that ran the housekeeping, which removed the
\* other key's day-old entries.
C7_Witness ==
    /\ rlResult.at = now
    /\ ~rlResult.is_allowed
    /\ rlResult.key = GhostCreateKey
    /\ last_cleanup = now
    /\ DOMAIN requests = {GhostCreateKey}
    /\ \A i \in 1..Len(requests[GhostCreateKey]) : requests[GhostCreateKey][i][1] < now

\* ---------------------------------------------------------- ghost asks
GhostJumps == {challenge_unlock_window_minutes}

InitGhost ==
    /\ ClockInit /\ RateInit /\ GhostInit /\ IntroInit /\ ChatInit /\ PostInit /\ CallsInit
    /\ notifications = <<>>

GhostCreate ==
    \E sender_id \in GhostSenders, recipient_id \in Users, message \in GhostMessages :
        /\ sender_id # recipient_id
        /\ CreateGhostAsk(sender_id, recipient_id, message)
        /\ UNCHANGED <<clockVars, rateVars, introVars, chatVars, postVars, callVars>>

GhostAttempt ==
    \E ghost_ask_id \in 1..(Len(ghost_asks) + 1), sender_id \in Users,
       force_send \in BOOLEAN :
        /\ AttemptSendGhostAsk(ghost_ask_id, sender_id, force_send)
        /\ UNCHANGED <<clockVars, rateVars, introVars, chatVars, postVars, callVars>>

GhostUpstream ==
    \E user_id \in GhostSenders, challenge_time \in ChallengeTimes, has_posted \in BOOLEAN :
        /\ UpstreamChallenge(user_id, challenge_time, has_posted)
        /\ UNCHANGED <<clockVars, rateVars, introVars, chatVars, postVars, callVars>>

GhostTick ==
    \E d \in GhostJumps :
        /\ clockSteps < MaxGhostTicks
        /\ Tick(d)
        /\ UNCHANGED <<rateVars, ghostVars, notifications, introVars, chatVars, postVars, callVars>>

NextGhost == GhostCreate \/ GhostAttempt \/ GhostUpstream \/ GhostTick

SpecGhost == InitGhost /\ [][NextGhost]_vars

\* A create_ghost_ask step that inserted a row (the sender was below the cap).
GhostCreated ==
    /\ ghostResult'.op = "create"
    /\ Len(ghost_asks') = Len(ghost_asks) + 1

\* C1: a create_ghost_ask below the daily cap is decided by the unlock
\* condition at creation.  With the sender's latest challenge posted and now
\* inside the unlock window, the call ends with the new row sent, sent_at set
\* and exactly one notification written, to the recipient; with has_posted
\* false under the same timing the row stays pending and locked, nothing is
\* notified, and the response asks for the unlock with a persuasion message
\* for attempt 1.
C1_CreateDecidedByUnlock ==
    [][GhostCreated =>
        LET rows == daily_challenges[ghostResult'.sender_id]
            id == Len(ghost_asks')
            row == ghost_asks'[id]
            inWindow ==
                /\ rows # <<>>
                /\ rows[1].challenge_time <= now
                /\ now <= rows[1].challenge_time + challenge_unlock_window_minutes
        IN  /\ ghostResult'.success
            /\ ghostResult'.ghost_ask_id = id
            /\ row.sender_id = ghostResult'.sender_id
            /\ row.persuasion_attempts = 0
            /\ (inWindow /\ rows[1].has_posted) =>
                /\ row.status = "sent"
                /\ row.sent_at = now
                /\ row.unlocked
                /\ ghostResult'.status = "sent"
                /\ ~ghostResult'.unlock_required
                /\ Len(notifications') = Len(notifications) + 1
                /\ SubSeq(notifications', 1, Len(notifications)) = notifications
                /\ notifications'[Len(notifications')].user_id = row.recipient_id
                /\ notifications'[Len(notifications')].type = "ghost_ask"
            /\ (inWindow /\ ~rows[1].has_posted) =>
                /\ row.status = "pending"
                /\ row.sent_at = None
                /\ ~row.unlocked
                /\ notifications' = notifications
                /\ ghostResult'.status = "pending"
                /\ ghostResult'.unlock_required
                /\ ghostResult'.persuasion_message =
                       generate_persuasion_message(row.sender_id, row.message, 1)
    ]_vars

\* C1 witness: a ghost ask created inside the window by a sender who had
\* posted: sent on creation, with its one notification.
C1_Witness ==
    /\ ghostResult.op = "create"
    /\ ghostResult.status = "sent"
    /\ Len(ghost_asks) = 1
    /\ ghost_asks[1].status = "sent"
    /\ ghost_asks[1].sent_at = ghost_asks[1].created_at
    /\ Len(notifications) = 1
    /\ LatestChallenge(ghostResult.sender_id) # <<>>
    /\ LatestChallenge(ghostResult.sender_id)[1].challenge_time = now - 2

\* An attempt_send_ghost_ask step on one's own pending ghost ask while locked.
LockedAttempt ==
    /\ ghostResult'.op = "attempt"
    /\ ghostResult' # ghostResult \/ ghost_asks' # ghost_asks
    /\ ghostResult'.request_id \in 1..Len(ghost_asks)
    /\ ghost_asks[ghostResult'.request_id].sender_id = ghostResult'.sender_id
    /\ ghost_asks[ghostResult'.request_id].status = "pending"
    /\ ~_check_user_posted_in_challenge_window(ghostResult'.sender_id, now)

AttemptOnSent ==
    /\ ghostResult'.op = "attempt"
    /\ ghostResult' # ghostResult
    /\ ghostResult'.request_id \in 1..Len(ghost_asks)
    /\ ghost_asks[ghostResult'.request_id].sender_id = ghostResult'.sender_id
    /\ ghost_asks[ghostResult'.request_id].status = "sent"

\* C16: every ghost ask is pending or sent (blocked is never assigned) and
\* has sent_at set exactly when it is sent; an attempt_send_ghost_ask on a
\* sent ask returns the already-sent error and changes neither the ask
\* (status, sent_at, persuasion_attempts) nor the notifications.
C16_SentIsFinal ==
    /\ [](\A i \in 1..Len(ghost_asks) :
            /\ ghost_asks[i].status \in {"pending", "sent"}
            /\ (ghost_asks[i].sent_at # None) <=> (ghost_asks[i].status = "sent"))
    /\ [][AttemptOnSent =>
            /\ ~ghostResult'.success
            /\ ghostResult'.error = "Ghost ask already sent"
            /\ ghost_asks' = ghost_asks
            /\ notifications' = notifications
       ]_vars

\* C16 witness: an attempt on a sent ghost ask was answered with the
\* already-sent error; the ask has its sent_at and its one notification.
C16_Witness ==
    /\ ghostResult.op = "attempt"
    /\ ghostResult.error = "Ghost ask already sent"
    /\ ghost_asks[ghostResult.request_id].status = "sent"
    /\ ghost_asks[ghostResult.request_id].sent_at # None
    /\ ghost_asks[ghostResult.request_id].persuasion_attempts = ForceSendAfter + 1
    /\ Len(notifications) = 1

\* The unlock check as create_ghost_ask records it: the unlocked column of
\* the row a create step inserted, and the sender's latest challenge rows.
CreatedUnlocked == ghost_asks'[Len(ghost_asks')].unlocked
CreatorChallenge == daily_challenges[ghostResult'.sender_id]

\* C17: the unlock check returns true only if the latest challenge row has
\* has_posted = true and challenge_time <= now < challenge_time + window +
\* 5 minutes of grace; it returns false when now is before challenge_time,
\* when has_posted is false, and when the user has no challenge row.
C17_UnlockOnlyInsideWindow ==
    [][GhostCreated =>
        /\ CreatedUnlocked =>
            /\ CreatorChallenge # <<>>
            /\ CreatorChallenge[1].has_posted
            /\ CreatorChallenge[1].challenge_time <= now
            /\ now < CreatorChallenge[1].challenge_time
                        + challenge_unlock_window_minutes + GraceMinutes
        /\ CreatorChallenge = <<>> => ~CreatedUnlocked
        /\ (CreatorChallenge # <<>> /\ ~CreatorChallenge[1].has_posted) => ~CreatedUnlocked
        /\ (CreatorChallenge # <<>> /\ now < CreatorChallenge[1].challenge_time)
               => ~CreatedUnlocked
    ]_vars

\* C17 without the lower bound: what the code computes.  The check is true
\* exactly when the row exists, has_posted is true and now is before the end
\* of the grace period, also when now is before challenge_time.
C17_UnlockBeforeGraceEnd ==
    [][GhostCreated =>
        (CreatedUnlocked <=>
            /\ CreatorChallenge # <<>>
            /\ CreatorChallenge[1].has_posted
            /\ now < CreatorChallenge[1].challenge_time
                        + challenge_unlock_window_minutes + GraceMinutes)
    ]_vars

\* ------------------------------------------------- the warm-intro service
IntroJumps == {1, IntroExpiryDays * MinutesPerDay - 1}

InitIntro ==
    /\ ClockInit /\ RateInit /\ GhostInit /\ IntroTablesInit /\ ChatInit /\ PostInit /\ CallsInit
    /\ updated_at_maintained \in BOOLEAN
    /\ notifications = <<>>

IntroCreate ==
    \E requester_id \in IntroRequesters, target_id \in Users, query_context \in IntroContexts :
        /\ CreateIntroRequest(requester_id, target_id, query_context)
        /\ UNCHANGED <<clockVars, rateVars, ghostVars, chatVars, postVars, callVars>>

IntroRespond ==
    \E intro_request_id \in 1..(Len(intro_requests) + 1), target_response \in BOOLEAN :
        /\ RespondToIntro(intro_request_id, target_response)
        /\ UNCHANGED <<clockVars, rateVars, ghostVars, chatVars, postVars, callVars>>

IntroExpire ==
    /\ ExpireOldRequests
    /\ UNCHANGED <<clockVars, rateVars, ghostVars, chatVars, postVars, callVars>>

IntroTick ==
    \E d \in IntroJumps :
        /\ Tick(d)
        /\ UNCHANGED <<rateVars, ghostVars, notifications, introVars, chatVars, postVars, callVars>>

NextIntro == IntroCreate \/ IntroRespond \/ IntroExpire \/ IntroTick

SpecIntro == InitIntro /\ [][NextIntro]_vars

\* A create_intro_request step.
IntroCreateStep ==
    /\ introResult'.op = "create"
    /\ introResult' # introResult

\* C3: create_intro_request for an ordered pair that already has a pending
\* request returns success=false with the duplicate error, does not raise,
\* and inserts no intro_requests row and no notification.
C3_DuplicateRejected ==
    [][(/\ IntroCreateStep
        /\ \E i \in 1..Len(intro_requests) :
              /\ intro_requests[i].requester_id = introResult'.requester_id
              /\ intro_requests[i].target_id = introResult'.target_id
              /\ intro_requests[i].status = "pending")
       => /\ ~introResult'.raised
          /\ ~introResult'.success
          /\ introResult'.error = "duplicate"
          /\ intro_requests' = intro_requests
          /\ notifications' = notifications
          /\ chats' = chats
          /\ messages' = messages
    ]_vars

\* C3 witness: a second request for a pair was refused as a duplicate while
\* the first one is still pending.
C3_Witness ==
    /\ introResult.op = "create"
    /\ introResult.error = "duplicate"
    /\ \E i \in 1..Len(intro_requests) :
          /\ intro_requests[i].requester_id = introResult.requester_id
          /\ intro_requests[i].target_id = introResult.target_id
          /\ intro_requests[i].status = "pending"
          /\ intro_requests[i].created_at < now
    /\ Len(notifications) = Len(intro_requests)

\* The newest request of an ordered pair (rows are stored in creation order).
NewestOfPair(requester_id, target_id) ==
    LET found == IntroRowsOf(intro_requests, requester_id, target_id,
                             {"pending", "accepted", "declined", "expired"})
    IN  IF found = {} THEN None
        ELSE CHOOSE i \in found : \A j \in found : j <= i

\* C4: after respond_to_intro declined a pair's request at time T,
\* create_intro_request for that pair is rejected with the cooldown error at
\* every time earlier than T + 7 days, and is not blocked by the cooldown at
\* any time later than T + 7 days.
C4_CooldownFromDecline ==
    [][(/\ IntroCreateStep
        /\ NewestOfPair(introResult'.requester_id, introResult'.target_id) # None
        /\ intro_requests[NewestOfPair(introResult'.requester_id,
                                       introResult'.target_id)].status = "declined")
       => LET declined == intro_requests[NewestOfPair(introResult'.requester_id,
                                                      introResult'.target_id)]
              T == declined.responded_at
          IN  /\ now < T + CooldownDaysDeclined * MinutesPerDay =>
                    /\ ~introResult'.success
                    /\ introResult'.error = "cooldown"
                    /\ intro_requests' = intro_requests
              /\ now > T + CooldownDaysDeclined * MinutesPerDay =>
                    introResult'.error # "cooldown"
    ]_vars

\* An expire_old_requests step.
IntroSweepStep ==
    /\ introResult'.op = "expire"
    /\ introResult' # introResult \/ intro_requests' # intro_requests

\* C5: expire_old_requests sets status=expired on exactly the requests that
\* are pending with expires_at < now, returns how many it changed and leaves
\* every other request (and every other table) unchanged; run again at once
\* it returns 0 and changes nothing.
C5_SweepExactAndIdempotent ==
    [][IntroSweepStep =>
        LET due == {i \in 1..Len(intro_requests) :
                       /\ intro_requests[i].status = "pending"
                       /\ intro_requests[i].expires_at < now}
            again == expire_old_requests(intro_requests', now')
        IN  /\ Len(intro_requests') = Len(intro_requests)
            /\ \A i \in 1..Len(intro_requests) :
                  IF i \in due
                  THEN /\ intro_requests'[i].status = "expired"
                       /\ [intro_requests'[i] EXCEPT !.status = "pending",
                               !.updated_at = intro_requests[i].updated_at]
                              = intro_requests[i]
                  ELSE intro_requests'[i] = intro_requests[i]
            /\ introResult'.count = Cardinality(due)
            /\ UNCHANGED <<chats, messages, notifications>>
            /\ again.count = 0
            /\ again.intro_requests = intro_requests'
    ]_vars

\* C5 witness: a sweep that expired one overdue pending request and left
\* alone an accepted request that is just as overdue.
C5_Witness ==
    /\ introResult.op = "expire"
    /\ introResult.at = now
    /\ introResult.count = 1
    /\ \E i, j \in 1..Len(intro_requests) :
          /\ intro_requests[i].status = "expired"
          /\ intro_requests[i].expires_at < now
          /\ intro_requests[j].status = "accepted"
          /\ intro_requests[j].expires_at < now

\* --------------------------------------------------- the post-analysis service
InitPost ==
    /\ ClockInit /\ RateInit /\ GhostInit /\ IntroInit /\ ChatInit /\ PostInit /\ CallsInit
    /\ notifications = <<>>

PostAnalyze ==
    \E user_id \in PostUsers, post_id \in PostIds, image_url \in ImageUrls,
       caption \in Captions, ai \in AiOutcomes :
        /\ AnalyzePost(user_id, post_id, image_url, caption, ai)
        /\ UNCHANGED <<clockVars, rateVars, ghostVars, notifications, introVars, chatVars, callVars>>

PostTick ==
    /\ Tick(1)
    /\ UNCHANGED <<rateVars, ghostVars, notifications, introVars, chatVars, postVars, callVars>>

NextPost == PostAnalyze \/ PostTick

SpecPost == InitPost /\ [][NextPost]_vars

\* An analyze_post step for a post whose insights are already stored.
CachedAnalyze ==
    /\ postResult'.op = "analyze"
    /\ postResult' # postResult
    /\ postResult'.post_id \in DOMAIN post_insights

\* C10: once analyze_post completed for a post_id, every later analyze_post
\* for it, whatever image_url, caption or provider answer it would get,
\* returns the stored (first) insight fields, makes no AI call and does not
\* rewrite the post_insights row; a stored row is what its call returned and
\* never changes afterwards.
C10_CachedInsightsReturned ==
    /\ [][CachedAnalyze =>
            /\ ~postResult'.raised
            /\ postResult'.insights = PostInsights(post_insights[postResult'.post_id])
            /\ ai_calls' = ai_calls
            /\ insight_writes' = insight_writes
            /\ post_insights' = post_insights
       ]_vars
    /\ [][\A p \in DOMAIN post_insights :
            /\ p \in DOMAIN post_insights'
            /\ post_insights'[p] = post_insights[p]
       ]_vars
    /\ [][\A p \in (DOMAIN post_insights') \ DOMAIN post_insights :
            /\ postResult'.post_id = p
            /\ postResult'.insights = PostInsights(post_insights'[p])
       ]_vars

\* C10 witness: a later call with an image, for which the provider would
\* have answered "city", returned the insight stored earlier for "beach".
C10_Witness ==
    /\ postResult.op = "analyze"
    /\ postResult.ai = "city"
    /\ OptTruthy(postResult.image_url)
    /\ postResult.post_id \in DOMAIN post_insights
    /\ post_insights[postResult.post_id].analyzed_at < now
    /\ post_insights[postResult.post_id].summary = <<"beach">>
    /\ postResult.insights.summary = <<"beach">>
    /\ ai_calls = 1
    /\ insight_writes = 1

\* ---------------------------------------------------------- the chat service
InitChat ==
    /\ ClockInit /\ RateInit /\ GhostInit /\ IntroInit /\ ChatInit /\ CallsInit
    /\ post_insights \in {<<>>, [p \in {"p1"} |-> StoredInsight]}
    /\ ai_calls = 0
    /\ insight_writes = 0
    /\ postResult = NoPostResult
    /\ notifications = <<>>

\* POST /api/chat/message: send_message without a thread_id.
ChatStart ==
    \E user_id \in ChatStarters, message \in ChatMessages,
       post_id \in ChatPostIds, face_matches \in FaceMatchInputs,
       ai_ok \in BOOLEAN, store_ok \in BOOLEAN :
        /\ SendMessage(user_id, message, <<>>, post_id, face_matches, ai_ok, store_ok)
        /\ UNCHANGED <<clockVars, rateVars, ghostVars, notifications, introVars, postVars, callVars>>

\* POST /api/chat/continue: send_message with the request's thread_id.
ChatContinue ==
    \E user_id \in Users, message \in ChatMessages, thread_id \in ThreadIdInputs,
       post_id \in ChatPostIds, face_matches \in FaceMatchInputs,
       ai_ok \in BOOLEAN, store_ok \in BOOLEAN :
        /\ SendMessage(user_id, message, <<thread_id>>, post_id, face_matches, ai_ok,
                       store_ok)
        /\ UNCHANGED <<clockVars, rateVars, ghostVars, notifications, introVars, postVars, callVars>>

ChatHistory ==
    \E thread_id \in ThreadIdInputs, user_id \in Users :
        /\ GetSessionHistory(thread_id, user_id)
        /\ UNCHANGED <<clockVars, rateVars, ghostVars, notifications, introVars, postVars, callVars>>

ChatDelete ==
    \E thread_id \in ThreadIdInputs, user_id \in Users :
        /\ DeleteSession(thread_id, user_id)
        /\ UNCHANGED <<clockVars, rateVars, ghostVars, notifications, introVars, postVars, callVars>>

ChatTick ==
    /\ clockSteps < MaxChatTicks
    /\ Tick(1)
    /\ UNCHANGED <<rateVars, ghostVars, notifications, introVars, chatVars, postVars, callVars>>

NextChat == ChatStart \/ ChatContinue \/ ChatHistory \/ ChatDelete \/ ChatTick

SpecChat == InitChat /\ [][NextChat]_vars

\* A send_message, get_session_history or delete_session step that was given
\* a thread_id for which the caller has no session row.
NoSessionForCaller ==
    /\ chatResult'.op \in {"send", "history", "delete"}
    /\ chatResult' # chatResult
    /\ chatResult'.thread_id # <<>>
    /\ SessionOf(chatResult'.thread_id[1], chatResult'.user_id) = <<>>
    /\ chatResult'.error # "database"

NotFoundAndUntouched ==
    /\ chatResult'.raised
    /\ chatResult'.error = "not_found"
    /\ ~chatResult'.success
    /\ chat_sessions' = chat_sessions
    /\ threads_created' = threads_created

\* C8: send_message, get_session_history and delete_session called with a
\* thread_id whose session row belongs to another user or does not exist
\* fail with the not-found error, create no session row and no provider
\* thread, and leave every session (history, last_activity, existence) as
\* it was.
C8_ForeignThreadNotFound ==
    [][NoSessionForCaller => NotFoundAndUntouched]_vars

\* C8, restricted to thread ids that are not the empty string: this part the
\* code satisfies.
C8_NonEmptyThreadNotFound ==
    [][(NoSessionForCaller /\ Truthy(chatResult'.thread_id[1]))
          => NotFoundAndUntouched]_vars

\* A send_message step that succeeded and whose AI exchange succeeded.
SentAndAnswered ==
    /\ chatResult'.op = "send"
    /\ chatResult' # chatResult
    /\ chatResult'.success
    /\ chatResult'.ai_ok

\* The conversation history of a thread before a step (empty if it is new).
HistoryBefore(thread_id) ==
    IF thread_id \in DOMAIN chat_sessions
    THEN chat_sessions[thread_id].conversation_history
    ELSE <<>>

\* C9: every send_message whose AI exchange succeeds appends a user entry
\* whose content is the caller's message exactly, never the augmented
\* prompt, whatever the message and whether or not post context or
\* face-match context was prepended.
C9_StoredContentIsCallerMessage ==
    [][SentAndAnswered =>
        LET tid == chatResult'.result_thread_id
            before == HistoryBefore(tid)
            after == chat_sessions'[tid].conversation_history
        IN  /\ Len(after) = Len(before) + 2
            /\ SubSeq(after, 1, Len(before)) = before
            /\ after[Len(before) + 1].role = "user"
            /\ after[Len(before) + 1].content = chatResult'.message
    ]_vars

\* C9, restricted to non-empty messages: this part the code satisfies.
C9_StoredContentWhenMessageNonEmpty ==
    [][(SentAndAnswered /\ Truthy(chatResult'.message)) =>
        LET tid == chatResult'.result_thread_id
            before == HistoryBefore(tid)
            after == chat_sessions'[tid].conversation_history
        IN  /\ Len(after) = Len(before) + 2
            /\ after[Len(before) + 1].role = "user"
            /\ after[Len(before) + 1].content = chatResult'.message
    ]_vars

\* The ChatMessageResponse the /message and /continue routes build from what
\* send_message did: the reply on return, success=False with only an error
\* text (response stays None) when it raised.
ChatMessageResponse(result) ==
    IF result.raised
    THEN [success |-> FALSE, response |-> <<>>, thread_id |-> <<>>,
          error |-> <<result.error>>]
    ELSE [success |-> TRUE, response |-> <<result.response>>,
          thread_id |-> <<result.result_thread_id>>, error |-> <<>>]

\* C13: every chat request that passed the rate limits ends with a response
\* carrying a non-empty textual reply, whatever failed during the request.
C13_EveryRequestCarriesReply ==
    chatResult.op = "send" =>
        /\ ChatMessageResponse(chatResult).response # <<>>
        /\ Truthy(ChatMessageResponse(chatResult).response[1])

\* The part that holds: once the session is resolved the reply is never
\* empty, also when the provider's completion fails.
C13_ReplyOnceSessionResolved ==
    (chatResult.op = "send" /\ ~chatResult.raised) =>
        /\ ChatMessageResponse(chatResult).response # <<>>
        /\ Truthy(ChatMessageResponse(chatResult).response[1])

\* ------------------------------------------------ the network search
InitNet ==
    /\ ClockInit /\ RateInit /\ GhostInit /\ IntroInit /\ ChatInit /\ PostInit
    /\ NetInit
    /\ calls = [c \in CallIds |-> IdleCall]
    /\ routeResult = NoRouteResult
    /\ notifications = <<>>

NetOthersUnchanged ==
    UNCHANGED <<clockVars, rateVars, ghostVars, notifications, introVars, chatVars, postVars,
                calls, routeResult>>

NetAcquire == \E conn_id \in all_conn_ids : MatchAcquire(conn_id) /\ NetOthersUnchanged

NetComplete == \E conn_id \in all_conn_ids : MatchComplete(conn_id) /\ NetOthersUnchanged

NetReturn == SearchReturn /\ NetOthersUnchanged

NextNet == NetAcquire \/ NetComplete \/ NetReturn

SpecNet == InitNet /\ [][NextNet]_vars

FailedConnections == {c \in all_conn_ids : ai_outcomes[c] = "fail"}

InList(conn_id, matches) == \E j \in 1..Len(matches) : matches[j].user_id = conn_id

Without(conn_id, matches) == SelectSeq(matches, LAMBDA m : m.user_id # conn_id)

\* The lists a search returns when the AI provider's outcomes are outcomes.
ListsFor(outcomes) ==
    SearchLists([c \in all_conn_ids |-> match_single_user(c, outcomes[c])])

\* C11: when the AI match call of a connection fails, the search still
\* returns normally, the connection is in neither result list, and the
\* other connections are listed exactly as in the search where that call
\* did not fail, whatever its answer would have been.
C11_FailedMatchIsolated ==
    searchResult.returned =>
        /\ ~searchResult.raised
        /\ \A c \in FailedConnections :
            /\ ~InList(c, searchResult.first_degree_matches)
            /\ ~InList(c, searchResult.second_degree_matches)
            /\ \A answered \in AiMatchOutcomes \ {"fail"} :
                LET other == ListsFor([ai_outcomes EXCEPT ![c] = answered]) IN
                /\ searchResult.first_degree_matches
                      = Without(c, other.first_degree_matches)
                /\ searchResult.second_degree_matches
                      = Without(c, other.second_degree_matches)

C11_Witness ==
    /\ searchResult.returned
    /\ ai_outcomes[1] = "fail"
    /\ ai_outcomes[2] = "high"
    /\ InList(2, searchResult.first_degree_matches)
    /\ Len(searchResult.second_degree_matches) = 1

\* ------------------------------------- ghost asks: any sender, any recipient
\* The ghost-ask service called by every user for every recipient (the
\* request schema accepts a recipient_id equal to the sender_id), at one
\* clock time.
AnonChallengeTimes == {0 - 2}

AnonCreate ==
    \E sender_id \in Users, recipient_id \in Users, message \in GhostMessages :
        /\ CreateGhostAsk(sender_id, recipient_id, message)
        /\ UNCHANGED <<clockVars, rateVars, introVars, chatVars, postVars, callVars>>

AnonUpstream ==
    \E user_id \in Users, challenge_time \in AnonChallengeTimes, has_posted \in BOOLEAN :
        /\ UpstreamChallenge(user_id, challenge_time, has_posted)
        /\ UNCHANGED <<clockVars, rateVars, introVars, chatVars, postVars, callVars>>

NextAnon == AnonCreate \/ GhostAttempt \/ AnonUpstream

SpecAnon == InitGhost /\ [][NextAnon]_vars

\* A step that inserted a notification row, the row, and the ghost ask it
\* belongs to.
NotificationWritten == Len(notifications') = Len(notifications) + 1
WrittenRow == notifications'[Len(notifications')]
WrittenAsk == ghost_asks'[WrittenRow.data.ghost_ask_id]

MaxRaceTicks == 1
IntroRaceJumps == {IntroExpiryDays * MinutesPerDay + 1}

IntroRaceOthersUnchanged ==
    UNCHANGED <<clockVars, rateVars, ghostVars, chatVars, postVars, netVars, routeResult>>

IntroRaceCreate ==
    \/ \E c \in CallIds, requester_id \in IntroRequesters, target_id \in Users,
          query_context \in IntroContexts :
            CreateCheckDuplicate(c, requester_id, target_id, query_context)
            /\ IntroRaceOthersUnchanged
    \/ \E c \in CallIds : CreateCheckCooldown(c) /\ IntroRaceOthersUnchanged
    \/ \E c \in CallIds : CreateCheckRateLimits(c) /\ IntroRaceOthersUnchanged
    \/ \E c \in CallIds : CreateInsert(c) /\ IntroRaceOthersUnchanged

IntroRaceRespond ==
    \/ \E c \in CallIds, intro_request_id \in 1..(Len(intro_requests) + 1),
          target_response \in BOOLEAN :
            RespondSelect(c, intro_request_id, target_response)
            /\ IntroRaceOthersUnchanged
    \/ \E c \in CallIds : RespondUpdate(c) /\ IntroRaceOthersUnchanged
    \/ \E c \in CallIds : RespondFinish(c) /\ IntroRaceOthersUnchanged

IntroRaceExpire ==
    \/ \E c \in CallIds : ExpireSelect(c) /\ IntroRaceOthersUnchanged
    \/ \E c \in CallIds : ExpireUpdate(c) /\ IntroRaceOthersUnchanged

IntroRaceTick ==
    \E d \in IntroRaceJumps :
        /\ clockSteps < MaxRaceTicks
        /\ Tick(d)
        /\ UNCHANGED <<rateVars, ghostVars, notifications, introVars, chatVars, postVars,
                       callVars>>

NextIntroRace == IntroRaceCreate \/ IntroRaceRespond \/ IntroRaceExpire \/ IntroRaceTick

SpecIntroRace == InitIntro /\ [][NextIntroRace]_vars

\* C14: for every ordered pair (requester_id, target_id) at most one intro
\* request is pending, in every reachable state, overlapping
\* create_intro_request calls for the pair included.
C14_OnePendingPerPair ==
    \A i, j \in 1..Len(intro_requests) :
        (/\ i # j
         /\ intro_requests[i].requester_id = intro_requests[j].requester_id
         /\ intro_requests[i].target_id = intro_requests[j].target_id
         /\ intro_requests[i].status = "pending")
            => intro_requests[j].status # "pending"

\* C15: the status of an intro request only changes from pending to
\* accepted, declined or expired; a request that is accepted, declined or
\* expired is not changed again, however respond_to_intro and
\* expire_old_requests calls overlap.
C15_StatusLeavesPendingOnce ==
    [][\A i \in 1..Len(intro_requests) :
          intro_requests'[i].status # intro_requests[i].status =>
              /\ intro_requests[i].status = "pending"
              /\ intro_requests'[i].status \in {"accepted", "declined", "expired"}
    ]_vars

\* ------------------------------------------- ghost asks, overlapping calls
GhostRaceOthersUnchanged ==
    UNCHANGED <<clockVars, rateVars, introVars, chatVars, postVars, netVars, routeResult>>

GhostRaceCreate ==
    \/ \E c \in CallIds, sender_id \in GhostSenders, recipient_id \in Users,
          message \in GhostMessages :
            /\ sender_id # recipient_id
            /\ GhostCreateCheckPosted(c, sender_id, recipient_id, message)
            /\ GhostRaceOthersUnchanged
    \/ \E c \in CallIds : GhostCreateCheckRateLimits(c) /\ GhostRaceOthersUnchanged
    \/ \E c \in CallIds : GhostCreateInsert(c) /\ GhostRaceOthersUnchanged

GhostRaceAttempt ==
    \/ \E c \in CallIds, ghost_ask_id \in 1..(Len(ghost_asks) + 1), sender_id \in Users :
            AttemptSelect(c, ghost_ask_id, sender_id) /\ GhostRaceOthersUnchanged
    \/ \E c \in CallIds : AttemptCheckPosted(c) /\ GhostRaceOthersUnchanged
    \/ \E c \in CallIds : AttemptCount(c) /\ GhostRaceOthersUnchanged

GhostRaceSend ==
    \/ \E c \in CallIds : SendUpdate(c) /\ GhostRaceOthersUnchanged
    \/ \E c \in CallIds : SendNotify(c) /\ GhostRaceOthersUnchanged

GhostRaceUpstream ==
    \E user_id \in GhostSenders, challenge_time \in ChallengeTimes, has_posted \in BOOLEAN :
        /\ UpstreamChallenge(user_id, challenge_time, has_posted)
        /\ UNCHANGED <<clockVars, rateVars, introVars, chatVars, postVars, callVars>>

GhostRaceTick ==
    /\ clockSteps < MaxRaceTicks
    /\ Tick(1)
    /\ UNCHANGED <<rateVars, ghostVars, notifications, introVars, chatVars, postVars,
                   callVars>>

NextGhostRace ==
    GhostRaceCreate \/ GhostRaceAttempt \/ GhostRaceSend \/ GhostRaceUpstream
        \/ GhostRaceTick

SpecGhostRace == InitGhost /\ [][NextGhostRace]_vars

\* The notification rows written for a ghost ask.
NotificationsOf(ghost_ask_id) ==
    {n \in 1..Len(notifications) :
        /\ notifications[n].type = "ghost_ask"
        /\ notifications[n].data.ghost_ask_id = ghost_ask_id}

\* C18: for every ghost ask at most one recipient notification is ever
\* written and sent_at is written at most once, however
\* attempt_send_ghost_ask calls overlap with each other and with the end of
\* create_ghost_ask.
C18_SentOnce ==
    /\ [](\A i \in 1..Len(ghost_asks) : Cardinality(NotificationsOf(i)) <= 1)
    /\ [][\A i \in 1..Len(ghost_asks) :
            ghost_asks[i].sent_at # None => ghost_asks'[i].sent_at = ghost_asks[i].sent_at
       ]_vars

\* --------------------------------------------- chat, overlapping calls
\* One thread of u1 exists, its history still empty.
InitChatRace ==
    /\ ClockInit /\ RateInit /\ GhostInit /\ IntroInit /\ PostInit /\ CallsInit
    /\ notifications = <<>>
    /\ chat_sessions = [t \in {ThreadIdOf(1)} |->
           [thread_id |-> t, user_id |-> "u1", post_id |-> <<>>,
            conversation_history |-> <<>>, created_at |-> now, last_activity |-> now]]
    /\ threads_created = 1
    /\ chatResult = NoChatResult

ChatRaceOthersUnchanged ==
    UNCHANGED <<clockVars, rateVars, ghostVars, notifications, introVars, postVars, netVars, routeResult>>

ChatRaceSend ==
    \/ \E c \in CallIds, user_id \in Users, message \in RaceMessages :
            SendSelectSession(c, user_id, ThreadIdOf(1), message)
            /\ ChatRaceOthersUnchanged
    \/ \E c \in CallIds, ai_ok \in BOOLEAN : SendCompletion(c, ai_ok) /\ ChatRaceOthersUnchanged
    \/ \E c \in CallIds : SendTouch(c) /\ ChatRaceOthersUnchanged

ChatRaceStore ==
    \/ \E c \in CallIds : StoreSelect(c) /\ ChatRaceOthersUnchanged
    \/ \E c \in CallIds : StoreUpdate(c) /\ ChatRaceOthersUnchanged

NextChatRace == ChatRaceSend \/ ChatRaceStore

SpecChatRace == InitChatRace /\ [][NextChatRace]_vars

\* The step in which call c stores its exchange, and the two entries of it.
Stores(c) == At(c, "send_message", "store_update") /\ calls'[c].pc = "last_activity"
ExchangeOf(c) ==
    <<[role |-> "user", content |-> calls[c].message, timestamp |-> now],
      [role |-> "assistant", content |-> calls[c].response, timestamp |-> now]>>
StoredHistory(thread_id) == chat_sessions[thread_id].conversation_history

\* C19: a send_message call that overlaps no other call on its thread
\* appends its exchange after everything stored before it, so the exchanges
\* of non-overlapping calls are all kept, in the order the calls complete;
\* and whatever the overlap, every call that stores leaves its own exchange
\* as the last two entries.  (That overlapping calls can leave only one of
\* their exchanges is the reachable state C19_Witness.)
C19_NonOverlappingKeepsBoth ==
    [][\A c \in CallIds :
          Stores(c) =>
              LET after == chat_sessions'[calls[c].thread_id].conversation_history IN
              /\ Len(after) >= 2
              /\ SubSeq(after, Len(after) - 1, Len(after)) = ExchangeOf(c)
              /\ ~calls[c].overlapped =>
                    after = StoredHistory(calls[c].thread_id) \o ExchangeOf(c)
    ]_vars

\* C19 witness, the lost update: the call with message "a" has stored its
\* exchange and is about to return the provider's reply, no other call is
\* in flight, and the stored history is the single exchange of the call
\* with message "b".
C19_Witness ==
    \E c \in CallIds :
        /\ At(c, "send_message", "last_activity")
        /\ calls[c].ai_ok
        /\ calls[c].message = <<"a">>
        /\ \A d \in CallIds \ {c} : Idle(d)
        /\ Len(StoredHistory(ThreadIdOf(1))) = 2
        /\ StoredHistory(ThreadIdOf(1))[1].content = <<"b">>

\* A step of call c, and the step in which it returns.
StepOf(c) == calls[c].op = "send_message" /\ calls'[c] # calls[c]
Returns(c) == At(c, "send_message", "last_activity") /\ calls'[c] = IdleCall

\* C20: for send_message calls that do not overlap on their thread, a call
\* whose completion succeeds appends exactly two entries, the user entry
\* and then the assistant entry; a call whose completion fails returns the
\* canned apology and appends nothing; and the stored history always has
\* even length with roles alternating user, assistant.
C20_TwoEntriesOrNone ==
    /\ [](\A t \in DOMAIN chat_sessions :
            /\ Len(StoredHistory(t)) % 2 = 0
            /\ \A k \in 1..Len(StoredHistory(t)) :
                  StoredHistory(t)[k].role = IF k % 2 = 1 THEN "user" ELSE "assistant")
    /\ [][\A c \in CallIds :
            StepOf(c) =>
                LET before == StoredHistory(calls[c].thread_id)
                    after == chat_sessions'[calls[c].thread_id].conversation_history
                IN  /\ (Stores(c) /\ ~calls[c].overlapped) =>
                        /\ calls[c].ai_ok
                        /\ Len(after) = Len(before) + 2
                        /\ SubSeq(after, 1, Len(before)) = before
                        /\ after[Len(before) + 1].role = "user"
                        /\ after[Len(before) + 1].content = calls[c].message
                        /\ after[Len(before) + 2].role = "assistant"
                        /\ after[Len(before) + 2].content = AiReply
                    /\ ~Stores(c) => after = before
                    /\ (Stores(c) \/ At(c, "send_message", "store_select")) => calls[c].ai_ok
                    /\ (Returns(c) /\ ~calls[c].ai_ok) =>
                        /\ calls[c].response = AiApology
                        /\ Truthy(calls[c].response)
       ]_vars

\* C20 witness: two calls one after the other stored their exchanges, then a
\* call that overlapped no other had its completion fail and is about to
\* return the apology; the four entries are still there.
C20_Witness ==
    \E c \in CallIds :
        /\ At(c, "send_message", "last_activity")
        /\ ~calls[c].ai_ok
        /\ ~calls[c].overlapped
        /\ calls[c].response = AiApology
        /\ \A d \in CallIds \ {c} : Idle(d)
        /\ Len(StoredHistory(ThreadIdOf(1))) = 4
        /\ StoredHistory(ThreadIdOf(1))[1].content = <<"a">>
        /\ StoredHistory(ThreadIdOf(1))[3].content = <<"b">>

\* ------------------------------------------------------- the chat routes
\* Requests to the two chat routes by both users, at most MaxRouteRequests
\* of them per user and minute.
MaxRouteRequests == 2

\* The request bodies: a plain message with or without an image, and a
\* location query.
RouteRequests ==
    {[message |-> <<"hi">>, image_url |-> <<>>],
     [message |-> <<"hi">>, image_url |-> <<"img">>],
     [message |-> <<"coffee">>, image_url |-> <<>>]}

\* What get_user_location_from_posts can find for a request.
UserLocations(request) ==
    IF is_location_query(request.message) THEN {<<>>, <<<<"Toronto">>>>} ELSE {<<>>}

InitChatRoute ==
    /\ ClockInit /\ RateInit /\ GhostInit /\ IntroInit /\ ChatInit /\ PostInit /\ CallsInit
    /\ notifications = <<>>

ChatRouteOthersUnchanged ==
    UNCHANGED <<clockVars, ghostVars, notifications, introVars, postVars, netVars, calls>>

\* The requests a user has made in the current minute that got past the
\* hourly gate.
BurstOf(user_id) ==
    SumCounts(NewerThan(EntriesOf(requests, UserKey(user_id, "chat_message")), now - 1))

RouteMessage ==
    \E user_id \in ChatStarters, request \in RouteRequests, ai_ok \in BOOLEAN :
        \E user_location \in UserLocations(request) :
            /\ BurstOf(user_id) < MaxRouteRequests
            /\ ChatRoute("message", user_id, request.message, <<>>, <<>>,
                         request.image_url, user_location, <<"alice">>, ai_ok, TRUE)
            /\ ChatRouteOthersUnchanged

RouteContinue ==
    \E user_id \in Users, request \in RouteRequests, thread_id \in ThreadIdInputs,
       ai_ok \in BOOLEAN :
        \E user_location \in UserLocations(request) :
            /\ BurstOf(user_id) < MaxRouteRequests
            /\ ChatRoute("continue", user_id, request.message, <<thread_id>>, <<>>,
                         request.image_url, user_location, <<"alice">>, ai_ok, TRUE)
            /\ ChatRouteOthersUnchanged

RouteTick ==
    /\ clockSteps < MaxChatTicks
    /\ Tick(1)
    /\ UNCHANGED <<rateVars, ghostVars, notifications, introVars, chatVars, postVars, callVars>>

NextChatRoute == RouteMessage \/ RouteContinue \/ RouteTick

SpecChatRoute == InitChatRoute /\ [][NextChatRoute]_vars

\* A step in which a route answered a request.
RouteStep == routeResult' # routeResult \/ requests' # requests

\* The session the request of the answer in routeResult' names, before the step.
RequestedSession ==
    IF routeResult'.request_thread_id = <<>> THEN <<>>
    ELSE SessionOf(routeResult'.request_thread_id[1], routeResult'.user_id)

\* C21: /api/chat/continue answers success=true only when a chat session with
\* the request's thread_id and user_id exists, whatever the message.
C21_ContinueNeedsSession ==
    [][(RouteStep /\ routeResult'.route = "continue" /\ routeResult'.success)
          => RequestedSession # <<>>]_vars

\* What does hold: an answer of the chat service to a non-empty thread_id
\* needs the session.
C21_ChatAnswerNeedsSession ==
    [][(/\ RouteStep /\ routeResult'.route = "continue" /\ routeResult'.success
        /\ "chat" \in routeResult'.called
        /\ OptTruthy(routeResult'.request_thread_id))
          => RequestedSession # <<>>]_vars

\* ------------------------------------------- the chat routes at their limits
\* Requests of u1 to the two chat routes, at most MaxBurst of them per
\* minute: u1 starts one conversation and continues it, or names its thread
\* before it exists.  The limiter starts empty, or as a burst of n /api/chat/continue
\* requests of u1 for an unknown thread, all made at minute 0, leaves it one
\* minute later: every request of the burst is recorded under the hourly key
\* and the first three under the minute key, and no session exists.
MaxBurst == 5
MaxLimitTicks == 1
LimitJumps == {1, MinutesPerHour - 1}
ChatPreloads == {0, CHAT_MESSAGE_PER_USER_HOUR - 4, CHAT_MESSAGE_PER_USER_HOUR - 3}

BurstAtZero(n) == [i \in 1..n |-> <<0, 1>>]

\* What the burst leaves: its third request was answered "not found" by the
\* chat service, its last one was rejected by the minute gate.
AfterBurst(n) ==
    /\ now = 1
    /\ requests =
          [k \in {UserKey("u1", "chat_message"), ChatMinuteKey} |->
              IF k = ChatMinuteKey
              THEN BurstAtZero(CHAT_MESSAGE_PER_USER_MINUTE)
              ELSE BurstAtZero(n)]
    /\ rlResult =
          [key |-> ChatMinuteKey, limit |-> CHAT_MESSAGE_PER_USER_MINUTE,
           window_minutes |-> 1, at |-> 0, is_allowed |-> FALSE,
           current_count |-> CHAT_MESSAGE_PER_USER_MINUTE, time_until_reset |-> 60]
    /\ chatResult =
          [NoChatResult EXCEPT !.op = "send", !.user_id = "u1",
              !.thread_id = <<ThreadIdOf(1)>>, !.message = <<"hi">>,
              !.ai_ok = TRUE, !.raised = TRUE, !.error = "not_found"]
    /\ routeResult =
          [NoRouteResult EXCEPT !.route = "continue", !.user_id = "u1",
              !.request_thread_id = <<ThreadIdOf(1)>>, !.error = "rate_limit",
              !.rejected_by = "chat_message_minute"]

InitChatLimit ==
    /\ GhostInit /\ IntroInit /\ PostInit
    /\ NetIdle
    /\ calls = [c \in CallIds |-> IdleCall]
    /\ notifications = <<>>
    /\ chat_sessions = <<>>
    /\ threads_created = 0
    /\ last_cleanup = 0
    /\ clockSteps = 0
    /\ \E n \in ChatPreloads :
          IF n = 0
          THEN /\ now = 0
               /\ requests = <<>>
               /\ rlResult = NoRlResult
               /\ chatResult = NoChatResult
               /\ routeResult = NoRouteResult
          ELSE AfterBurst(n)

LimitMessage ==
    \E request \in RouteRequests :
        \E user_location \in UserLocations(request) :
            /\ BurstOf("u1") < MaxBurst
            /\ chat_sessions = <<>>
            /\ ChatRoute("message", "u1", request.message, <<>>, <<>>,
                         request.image_url, user_location, <<"alice">>, TRUE, TRUE)
            /\ ChatRouteOthersUnchanged

LimitContinue ==
    \E request \in RouteRequests, thread_id \in {ThreadIdOf(1)} :
        \E user_location \in UserLocations(request) :
            /\ BurstOf("u1") < MaxBurst
            /\ ChatRoute("continue", "u1", request.message, <<thread_id>>, <<>>,
                         request.image_url, user_location, <<"alice">>, TRUE, TRUE)
            /\ ChatRouteOthersUnchanged

LimitTick ==
    \E d \in LimitJumps :
        /\ clockSteps < MaxLimitTicks
        /\ Tick(d)
        /\ UNCHANGED <<rateVars, ghostVars, notifications, introVars, chatVars, postVars, callVars>>

NextChatLimit == LimitMessage \/ LimitContinue \/ LimitTick

SpecChatLimit == InitChatLimit /\ [][NextChatLimit]_vars

\* The requests of a user that got past both gates are the ones recorded
\* under the user's minute key; those made in the w minutes that end at t.
PassedIn(reqs, user_id, t, w) ==
    LET entries == EntriesOf(reqs, UserKey(user_id, "chat_message_minute"))
    IN  Len(SelectSeq(entries, LAMBDA e : e[1] > t - w /\ e[1] <= t))

\* The windows to look at: a window holds the most requests when it ends at
\* the time of one of them.
WindowEnds(user_id) ==
    LET entries == EntriesOf(requests, UserKey(user_id, "chat_message_minute"))
    IN  {entries[i][1] : i \in 1..Len(entries)}

\* The tables of the data store.
StoreTables ==
    <<daily_challenges, ghost_asks, notifications, intro_requests, chats, messages,
      chat_sessions, post_insights>>

OtherSenders == <<"u3", "u4", "u5">>
OtherSenderKeys ==
    <<"user:u3:ghost_ask_create", "user:u4:ghost_ask_create", "user:u5:ghost_ask_create">>
OtherSenderOf(i) == OtherSenders[((i - 1) \div GHOST_ASK_CREATE_PER_USER_DAY) + 1]
IpBurst == GHOST_ASK_CREATE_PER_IP_DAY - 1
GateJumps == {MinutesPerDay - 1}

\* What the nine creates leave: a locked row each, one entry each under the
\* sender's key and under the address key.
AfterIpBurst ==
    /\ now = 1
    /\ daily_challenges =
          [u \in Users \cup {OtherSenders[i] : i \in 1..Len(OtherSenders)} |-> <<>>]
    /\ requests =
          [k \in {OtherSenderKeys[i] : i \in 1..Len(OtherSenderKeys)} \cup {GhostIpKey} |->
              IF k = GhostIpKey THEN BurstAtZero(IpBurst)
              ELSE BurstAtZero(GHOST_ASK_CREATE_PER_USER_DAY)]
    /\ ghost_asks =
          [i \in 1..IpBurst |->
              [sender_id |-> OtherSenderOf(i), recipient_id |-> "u1",
               message |-> "hey", status |-> "pending", created_at |-> 0,
               sent_at |-> None, unlocked |-> FALSE, persuasion_attempts |-> 0]]
    /\ rlResult =
          [key |-> GhostIpKey, limit |-> GHOST_ASK_CREATE_PER_IP_DAY,
           window_minutes |-> MinutesPerDay, at |-> 0, is_allowed |-> TRUE,
           current_count |-> IpBurst - 1, time_until_reset |-> MinutesPerDay * 60]
    /\ ghostResult =
          [NoGhostResult EXCEPT !.op = "create", !.at = 0,
              !.sender_id = OtherSenderOf(IpBurst), !.success = TRUE,
              !.ghost_ask_id = IpBurst, !.status = "pending",
              !.message = "ghost ask created but locked", !.unlock_required = TRUE,
              !.time_remaining_seconds = DefaultUnlockWaitHours * 3600,
              !.persuasion_message =
                  generate_persuasion_message(OtherSenderOf(IpBurst), "hey", 1)]
    /\ routeResult =
          [NoRouteResult EXCEPT !.route = "ghost_create",
              !.user_id = OtherSenderOf(IpBurst), !.success = TRUE,
              !.called = {"ghost_ask"}]

InitGates ==
    /\ IntroInit /\ ChatInit /\ PostInit
    /\ NetIdle
    /\ calls = [c \in CallIds |-> IdleCall]
    /\ notifications = <<>>
    /\ last_cleanup = 0
    /\ clockSteps = 0
    /\ \/ /\ now = 0
          /\ requests = <<>>
          /\ rlResult = NoRlResult
          /\ GhostInit
          /\ routeResult = NoRouteResult
       \/ AfterIpBurst

GateChat ==
    \E request \in RouteRequests :
        \E user_location \in UserLocations(request) :
            /\ BurstOf("u1") < MaxBurst
            /\ ChatRoute("continue", "u1", request.message, <<ThreadIdOf(1)>>, <<>>,
                         request.image_url, user_location, <<"alice">>, TRUE, TRUE)
            /\ ChatRouteOthersUnchanged

GateGhostCreate ==
    \E sender_id \in GhostSenders, message \in GhostMessages :
        /\ GhostCreateRoute(sender_id, "u2", message)
        /\ UNCHANGED <<clockVars, introVars, chatVars, postVars, netVars, calls>>

GateTick ==
    \E d \in GateJumps :
        /\ clockSteps < MaxLimitTicks
        /\ Tick(d)
        /\ UNCHANGED <<rateVars, ghostVars, notifications, introVars, chatVars, postVars, callVars>>

NextGates == GateChat \/ GateGhostCreate \/ GateTick

SpecGates == InitGates /\ [][NextGates]_vars

\* The calls recorded under a key in the w minutes that end now.
Counted(reqs, key, w) == SumCounts(NewerThan(EntriesOf(reqs, key), now - w))

\* What a route step adds to each of the two keys of its route.
AddedToChatKeys(user_id) ==
    <<Counted(requests', UserKey(user_id, "chat_message"), MinutesPerHour)
        - Counted(requests, UserKey(user_id, "chat_message"), MinutesPerHour),
      Counted(requests', UserKey(user_id, "chat_message_minute"), 1)
        - Counted(requests, UserKey(user_id, "chat_message_minute"), 1)>>
AddedToGhostKeys(user_id) ==
    <<Counted(requests', UserKey(user_id, "ghost_ask_create"), MinutesPerDay)
        - Counted(requests, UserKey(user_id, "ghost_ask_create"), MinutesPerDay),
      Counted(requests', GhostIpKey, MinutesPerDay)
        - Counted(requests, GhostIpKey, MinutesPerDay)>>

\* C23: the gates of a route are consumed in order.  A chat request rejected
\* by the per-minute gate has been recorded under the hourly key and not
\* under the minute key; a ghost-ask create rejected by the per-IP gate has
\* been recorded under the sender's key and not under the address key; a
\* request rejected by the first gate is recorded nowhere, and one that
\* passes both is recorded under both.
C23_GatesConsumedInOrder ==
    [][RouteStep =>
          LET r == routeResult'
              chat == r.route \in {"message", "continue"}
              added == IF chat THEN AddedToChatKeys(r.user_id)
                       ELSE AddedToGhostKeys(r.user_id)
          IN  /\ r.rejected_by \in {"chat_message_minute", "ip"} => added = <<1, 0>>
              /\ r.rejected_by \in {"chat_message", "user"} => added = <<0, 0>>
              /\ r.rejected_by = "" => added = <<1, 1>>
              /\ r.rejected_by # "" => ~r.success /\ r.called = {}
    ]_vars

\* C23 witness: u1's create was rejected by the per-IP gate, the address
\* being at its limit, and is the second entry under u1's own key; earlier
\* in the same minute u1's fourth chat request was rejected by the minute
\* gate and is the fourth entry under u1's hourly key.
C23_Witness ==
    /\ routeResult.route = "ghost_create"
    /\ routeResult.rejected_by = "ip"
    /\ Counted(requests, GhostIpKey, MinutesPerDay) = GHOST_ASK_CREATE_PER_IP_DAY
    /\ Counted(requests, GhostCreateKey, MinutesPerDay) = 2
    /\ Counted(requests, ChatMinuteKey, 1) = CHAT_MESSAGE_PER_USER_MINUTE
    /\ Counted(requests, UserKey("u1", "chat_message"), MinutesPerHour)
          = CHAT_MESSAGE_PER_USER_MINUTE + 1

\* ------------------------------------- warm intros, when the chat fails
InitIntroFail ==
    /\ InitIntro
    /\ ~updated_at_maintained

FailRespond ==
    \E intro_request_id \in 1..Len(intro_requests), target_response \in BOOLEAN,
       failure \in IntroFailures :
        /\ respond_to_intro(intro_request_id, target_response, failure)
        /\ UNCHANGED <<clockVars, rateVars, ghostVars, chatVars, postVars, callVars>>

FailTick ==
    /\ Tick(1)
    /\ UNCHANGED <<rateVars, ghostVars, notifications, introVars, chatVars, postVars, callVars>>

NextIntroFail == IntroCreate \/ FailRespond \/ FailTick

SpecIntroFail == InitIntroFail /\ [][NextIntroFail]_vars

\* A respond_to_intro(accept) step on the request with id i.
AcceptStep(i) ==
    /\ introResult' # introResult
    /\ introResult'.op = "respond"
    /\ introResult'.target_response
    /\ introResult'.request_id = i

\* The chats of request i's pair that have at least one message.
CompleteChats(chs, msgs, i) ==
    {k \in 1..Len(chs) :
        /\ chs[k].user1 = intro_requests[i].requester_id
        /\ chs[k].user2 = intro_requests[i].target_id
        /\ \E m \in 1..Len(msgs) : msgs[m].chat_id = chs[k].chat_id}

\* C24: an accept of a pending request always leaves status = accepted; when
\* generating the intro message or inserting the chat or the message fails,
\* the call raises and adds no complete chat (no chat row, or a chat row with
\* no message); an accept of a request already accepted is rejected as
\* "already accepted" and writes nothing.
C24_AcceptedBeforeChat ==
    [][\A i \in 1..Len(intro_requests) :
        AcceptStep(i) =>
            /\ intro_requests[i].status = "pending" =>
                  /\ intro_requests'[i].status = "accepted"
                  /\ introResult'.raised <=> introResult'.failed_at # ""
                  /\ introResult'.raised =>
                        /\ ~introResult'.success
                        /\ messages' = messages
                        /\ CompleteChats(chats', messages', i)
                              = CompleteChats(chats, messages, i)
                        /\ \/ chats' = chats
                           \/ /\ introResult'.failed_at = "messages"
                              /\ Len(chats') = Len(chats) + 1
                  /\ ~introResult'.raised =>
                        /\ introResult'.success
                        /\ introResult'.chat_id \in CompleteChats(chats', messages', i)
            /\ intro_requests[i].status = "accepted" =>
                  /\ ~introResult'.success /\ ~introResult'.raised
                  /\ introResult'.error = "already"
                  /\ introResult'.status = "accepted"
                  /\ UNCHANGED <<intro_requests, chats, messages, notifications>>
    ]_vars

\* An accepted request whose chat has no message, after its accept was
\* retried and rejected.
C24_Witness ==
    /\ introResult.op = "respond" /\ introResult.target_response
    /\ introResult.error = "already" /\ introResult.status = "accepted"
    /\ introResult.request_id \in 1..Len(intro_requests)
    /\ intro_requests[introResult.request_id].status = "accepted"
    /\ Len(chats) = 1
    /\ messages = <<>>

\* ------------------------------------- warm intros, answered after expiry
\* A respond_to_intro step on the request with id i.
RespondStep(i) ==
    /\ introResult' # introResult
    /\ introResult'.op = "respond"
    /\ introResult'.request_id = i

\* An expire_old_requests step.
ExpireStep ==
    /\ introResult' # introResult
    /\ introResult'.op = "expire"

\* C25: respond_to_intro never looks at expires_at: a request still pending
\* is accepted or declined as asked, also after its expires_at; and a
\* request that has been answered is left alone by expire_old_requests.
C25_ExpiryNotConsulted ==
    [][\A i \in 1..Len(intro_requests) :
        /\ (RespondStep(i) /\ intro_requests[i].status = "pending") =>
              /\ introResult'.success
              /\ intro_requests'[i].status =
                    IF introResult'.target_response THEN "accepted" ELSE "declined"
              /\ intro_requests'[i].responded_at = now
        /\ (ExpireStep /\ intro_requests[i].status \in {"accepted", "declined"}) =>
              intro_requests'[i] = intro_requests[i]
    ]_vars

\* A request answered after its expires_at and then passed over by the sweep.
C25_Witness ==
    /\ introResult.op = "expire"
    /\ \E i \in 1..Len(intro_requests) :
          /\ intro_requests[i].status \in {"accepted", "declined"}
          /\ intro_requests[i].responded_at > intro_requests[i].expires_at
          /\ introResult.at >= intro_requests[i].responded_at

\* ------------------------------------- warm intros at the daily limit
MaxLimitRows == 4
MaxLimitSteps == 2
\* The requester asks for a new target each time (a repeated target is the
\* duplicate and cooldown checks' case): the n-th request goes to the n-th.
IntroLimitTargets == <<"u2", "u3", "u4", "u5", "u6", "u7">>
IntroLimitJumps == {1, MinutesPerDay - 1}

LimitCreate ==
    \E requester_id \in IntroRequesters, query_context \in IntroContexts :
        /\ Len(intro_requests) < Len(IntroLimitTargets)
        /\ create_intro_request(requester_id,
                                IntroLimitTargets[Len(intro_requests) + 1], query_context)
        /\ Len(intro_requests') <= MaxLimitRows
        /\ UNCHANGED <<clockVars, rateVars, ghostVars, chatVars, postVars, callVars>>

\* The target of the newest request answers it.
LimitRespond ==
    \E intro_request_id \in {Len(intro_requests)} \ {0}, target_response \in BOOLEAN :
        /\ intro_requests[intro_request_id].status = "pending"
        /\ RespondToIntro(intro_request_id, target_response)
        /\ UNCHANGED <<clockVars, rateVars, ghostVars, chatVars, postVars, callVars>>

LimitStep ==
    \E d \in IntroLimitJumps :
        /\ clockSteps < MaxLimitSteps
        /\ now' = now + d
        /\ clockSteps' = clockSteps + 1
        /\ UNCHANGED <<rateVars, ghostVars, notifications, introVars, chatVars, postVars, callVars>>

NextIntroLimit == LimitCreate \/ LimitRespond \/ LimitStep

SpecIntroLimit == InitIntroFail /\ [][NextIntroLimit]_vars

\* The requester's pending requests created in the 24 hours up to time t.
PendingInDay(reqs, requester_id, t) ==
    {i \in 1..Len(reqs) :
        /\ reqs[i].requester_id = requester_id
        /\ reqs[i].status = "pending"
        /\ t - reqs[i].created_at <= MinutesPerDay}

\* C26: a create_intro_request that passes the self, duplicate and cooldown
\* checks is rejected with the daily-limit error exactly when the requester
\* has 3 or more pending requests created in the trailing 24 hours (accepted,
\* declined and expired requests do not count), and a rejected call inserts
\* no row.
C26_DailyLimitCountsPending ==
    [][(/\ IntroCreateStep
        /\ introResult'.requester_id # introResult'.target_id
        /\ _check_duplicate_request(intro_requests, introResult'.requester_id,
                                    introResult'.target_id) = None
        /\ _check_cooldown(intro_requests, introResult'.requester_id,
                           introResult'.target_id, now).ok)
       =>
        /\ introResult'.error = "daily_limit"
              <=> Cardinality(PendingInDay(intro_requests,
                                  introResult'.requester_id, now)) >= 3
        /\ introResult'.error = "daily_limit" =>
              /\ ~introResult'.success
              /\ UNCHANGED <<intro_requests, notifications>>
        /\ introResult'.error # "daily_limit" =>
              /\ introResult'.success
              /\ Len(intro_requests') = Len(intro_requests) + 1
    ]_vars

\* A fourth request was rejected at the daily limit while an answered
\* request of the same day did not count.
C26_Witness ==
    /\ introResult.op = "create"
    /\ introResult.error = "daily_limit"
    /\ Cardinality(PendingInDay(intro_requests, introResult.requester_id, now)) = 3
    /\ \E i \in 1..Len(intro_requests) :
          /\ intro_requests[i].requester_id = introResult.requester_id
          /\ intro_requests[i].status \in {"accepted", "declined"}
          /\ now - intro_requests[i].created_at <= MinutesPerDay

\* ---------------------------------------------- ghost asks and force_send
\* The ask a call with this id and sender would read, if there is one.
AskOf(ghost_ask_id, sender_id) ==
    IF ghost_ask_id \in 1..Len(ghost_asks)
       /\ ghost_asks[ghost_ask_id].sender_id = sender_id
    THEN <<ghost_asks[ghost_ask_id]>>
    ELSE <<>>

\* An attempt_send_ghost_ask step, as its result records it.
GhostAttemptStep ==
    /\ ghostResult' # ghostResult
    /\ ghostResult'.op = "attempt"

MaxRouteTicks == 7
RouteJumps == {1, MinutesPerDay - 3}

InitGhostRoute == InitGhost

\* create_ghost_ask of api/ghost_ask.py up to the call of the service.
GhostRouteGates ==
    \E sender_id \in GhostSenders :
        /\ Idle(1)
        /\ \E gates \in {GhostGates(sender_id, requests, last_cleanup, now)} :
              LET rejected_by == IF ~gates.user.is_allowed THEN "user"
                                 ELSE IF ~gates.ip.is_allowed THEN "ip" ELSE ""
                  last == IF rejected_by = "user" THEN gates.user ELSE gates.ip
              IN  /\ requests' = last.requests
                  /\ last_cleanup' = last.last_cleanup
                  /\ rlResult' =
                        IF rejected_by = "user"
                        THEN RlResult(UserKey(sender_id, "ghost_ask_create"),
                                 GHOST_ASK_CREATE_PER_USER_DAY, MinutesPerDay, now, last)
                        ELSE RlResult(GhostIpKey, GHOST_ASK_CREATE_PER_IP_DAY,
                                      MinutesPerDay, now, last)
                  /\ IF rejected_by # ""
                     THEN /\ routeResult' =
                                [NoRouteResult EXCEPT !.route = "ghost_create",
                                     !.user_id = sender_id, !.error = "rate_limit",
                                     !.rejected_by = rejected_by]
                          /\ UNCHANGED calls
                     ELSE /\ calls' = [calls EXCEPT ![1] =
                                [op |-> "ghost_create", pc |-> "service",
                                 sender_id |-> sender_id, at |-> now]]
                          /\ UNCHANGED routeResult
        /\ UNCHANGED <<clockVars, ghostVars, notifications, introVars, chatVars,
                       postVars, netVars>>

\* ghost_ask_service.create_ghost_ask as the route calls it, and the response.
GhostRouteService ==
    /\ At(1, "ghost_create", "service")
    /\ calls[1].at < now
    /\ create_ghost_ask(calls[1].sender_id, "u2", "hey")
    /\ routeResult' = [NoRouteResult EXCEPT !.route = "ghost_create",
                            !.user_id = calls[1].sender_id,
                            !.success = ghostResult'.success,
                            !.error = ghostResult'.error,
                            !.called = {"ghost_ask"}]
    /\ calls' = [calls EXCEPT ![1] = IdleCall]
    /\ UNCHANGED <<clockVars, rateVars, introVars, chatVars, postVars, netVars>>

GhostRouteTick ==
    \E d \in RouteJumps :
        /\ clockSteps < MaxRouteTicks
        /\ now' = now + d
        /\ clockSteps' = clockSteps + 1
        /\ UNCHANGED <<rateVars, ghostVars, notifications, introVars, chatVars, postVars, callVars>>

NextGhostRoute == GhostRouteGates \/ GhostRouteService \/ GhostRouteTick

SpecGhostRoute == InitGhostRoute /\ [][NextGhostRoute]_vars

\* The service's create_ghost_ask answers.
GhostServiceStep ==
    /\ At(1, "ghost_create", "service")
    /\ Idle(1)'

\* C28: when every ask of a sender is created through the route, in one
\* process, the service's own daily limit (5 in 24 hours) is never what
\* refuses a creation: the service always finds fewer than 5 of the sender's
\* asks in its 24 hours and creates the ask; refusals come from the route's
\* limit of 3 in 24 hours.
C28_RouteLimitFirst ==
    [][GhostServiceStep =>
        /\ GhostCreatedSince(ghost_asks, calls[1].sender_id, now - MinutesPerDay)
              < max_ghost_asks_per_day
        /\ ghostResult'.success
        /\ ghostResult'.error = ""
        /\ Len(ghost_asks') = Len(ghost_asks) + 1
    ]_vars

\* The route refused a creation while the service would have counted 3 asks
\* of the sender, one of them older than the route's window.
C28_Witness ==
    /\ routeResult.route = "ghost_create"
    /\ routeResult.rejected_by = "user"
    /\ Len(ghost_asks) > GHOST_ASK_CREATE_PER_USER_DAY
    /\ GhostCreatedSince(ghost_asks, routeResult.user_id, now - MinutesPerDay)
          = GHOST_ASK_CREATE_PER_USER_DAY

\* ------------------------------------- the network query's response
\* max_results of the request: conint(ge=1, le=50), default 10.
MaxResultsInputs == {1, 2, 10}

QueryRespond ==
    \E max_results \in MaxResultsInputs :
        /\ searchResult.returned
        /\ routeResult = NoRouteResult
        /\ routeResult' = NetworkQueryResponse(searchResult, max_results)
        /\ UNCHANGED <<clockVars, rateVars, ghostVars, notifications, introVars, chatVars,
                       postVars, netVars, calls>>

NextNetQuery == NetAcquire \/ NetComplete \/ NetReturn \/ QueryRespond

SpecNetQuery == InitNet /\ [][NextNetQuery]_vars

DegreesIn(matches) == {matches[i].degree : i \in 1..Len(matches)}

\* C29: the response of /api/network/query never mixes degrees: with at
\* least one first-degree match every returned match is first-degree;
\* second-degree matches are returned only when the search found no
\* first-degree match; total_matches is the number of returned matches and
\* is at most max_results.
C29_DegreesNeverMixed ==
    routeResult.route = "network_query" =>
        /\ Cardinality(DegreesIn(routeResult.matches)) <= 1
        /\ searchResult.first_degree_matches # <<>> =>
              DegreesIn(routeResult.matches) = {1}
        /\ 2 \in DegreesIn(routeResult.matches) =>
              searchResult.first_degree_matches = <<>>
        /\ routeResult.total_matches = Len(routeResult.matches)
        /\ routeResult.total_matches <= routeResult.max_results
        /\ \A i \in 1..Len(routeResult.matches) :
              LET m == routeResult.matches[i] IN
              \/ m.degree = 1 /\ InList(m.user_id, searchResult.first_degree_matches)
              \/ m.degree = 2 /\ InList(m.user_id, searchResult.second_degree_matches)

\* A response cut to max_results first-degree matches while the search also
\* found a second-degree match and there was room for it.
C29_Witness ==
    /\ routeResult.route = "network_query"
    /\ Len(searchResult.first_degree_matches) = 1
    /\ Len(searchResult.second_degree_matches) >= 1
    /\ routeResult.max_results >= 2
    /\ routeResult.total_matches = 1
    /\ routeResult.has_second_degree

\* ------------------------------------- the network search, to its end
\* The event loop runs every task that can run: a task waiting for the
\* semaphore enters when a slot is free, an AI call in flight comes back
\* (with an answer or a failure), and gather returns when all tasks are done.
SpecNetFair ==
    /\ InitNet
    /\ [][NextNet]_vars
    /\ WF_vars(NetAcquire) /\ WF_vars(NetComplete) /\ WF_vars(NetReturn)

\* C30: in one search_network_semantic call the AI match calls in flight
\* never number more than max_parallel_ai_requests; every connection's task
\* issues its match call once (waiting -> running -> done, never back) and
\* the search returns only when every task is done; and the search does
\* return.
C30_BoundedParallelMatching ==
    /\ [](Cardinality(Running) <= max_parallel_ai_requests)
    /\ [][\A c \in all_conn_ids :
            match_tasks'[c] # match_tasks[c] =>
                \/ match_tasks[c] = "waiting" /\ match_tasks'[c] = "running"
                \/ match_tasks[c] = "running" /\ match_tasks'[c] = "done"]_vars
    /\ [](searchResult.returned => \A c \in all_conn_ids : match_tasks[c] = "done")
    /\ <>(searchResult.returned)

\* Every slot of the semaphore is taken and a task waits for one.
C30_Witness ==
    /\ Cardinality(Running) = max_parallel_ai_requests
    /\ \E c \in all_conn_ids : match_tasks[c] = "waiting"
    /\ \E c \in all_conn_ids : match_tasks[c] = "done"

====
